---- MODULE Spec2Model ----
(***************************************************************************)
(* Model of the rail_sim tick-driven simulation engine: the record store   *)
(* (MemmapAllocator), the customer generator, the path table and map, the  *)
(* train generator, trains, stations and SimulationLoop.step.              *)
(*                                                                         *)
(* Four specifications are defined over the same variables:                *)
(*   SpecStore - the record store driven directly by allocate / release    *)
(*               calls (as the generator and the loop call it);            *)
(*   SpecGen   - the train generators driven directly by tick and          *)
(*               release_train calls, before, in and after service hours;  *)
(*   SpecPaths - the path table driven directly by plan and expand calls;  *)
(*   Spec      - SimulationLoop.step, one tick after another, split into   *)
(*               its phases in program order (pc is the position inside    *)
(*               step); pc = "idle" is the end of a tick.                  *)
(*                                                                         *)
(* numpy semantics that the code relies on and that the model keeps:       *)
(*   memmap[i][f] = v       with a scalar i writes the store row;          *)
(*   memmap[arr][f] = v     with an index ARRAY arr assigns into the       *)
(*                          temporary copy made by advanced indexing, the  *)
(*                          store row is left as it was.                   *)
(***************************************************************************)
EXTENDS Integers, Sequences, FiniteSets, TLC

\* ------------------------------------------------------------------ bounds
Capacity == 3          \* initial_capacity of the record store
MaxArrivals == 2       \* largest Poisson draw n_arrivals considered per call
MaxNextId == 7         \* allocator calls are made only while next_id <= MaxNextId
MaxCreated == 6        \* a generator draws n > 0 only while next_id <= MaxCreated
MaxTicks == 9          \* run(n_ticks) with n_ticks = MaxTicks

\* ------------------------------------------------------- passenger states
WAITING == 0
ONBOARD == 1
ARRIVED == 2
TRANSFERRING == 3

Idx == 0 .. (Capacity - 1)

\* A zeroed row of CUSTOMER_DTYPE (the fields the engine reads or writes;
\* the timestamps and movement_speed are written once and never read).
ZeroRow ==
  [id |-> 0, origin_station_id |-> 0, dest_station_id |-> 0,
   current_station_id |-> 0, on_train_id |-> 0, state |-> 0,
   path_id |-> 0, total_wait_time |-> 0]

\* ------------------------------------------------------------- utilities
Min(a, b) == IF a <= b THEN a ELSE b
Max(a, b) == IF a >= b THEN a ELSE b
Range(s) == {s[i] : i \in 1 .. Len(s)}
Front(s) == SubSeq(s, 1, Len(s) - 1)
Last(s) == s[Len(s)]
NoDup(s) == \A i, j \in 1 .. Len(s) : i # j => s[i] # s[j]

RECURSIVE SumSeq(_)
SumSeq(q) == IF q = <<>> THEN 0 ELSE q[1] + SumSeq(Tail(q))

VARIABLES
  memmap,          \* allocator.memmap : Idx -> row
  free_indices,    \* allocator.free_indices (a Python list used as a stack)
  next_id,         \* allocator.next_id
  current_tick,    \* SimulationLoop.current_tick
  current_time,    \* SimulationLoop.current_time (seconds)
  waiting,         \* station id -> Station.waiting_passengers
  paths,           \* PathTable.paths: path_id -> segments (ids are 1..Len)
  tgen,            \* line number -> state of its TrainGenerator
  active_trains,   \* SimulationLoop.active_trains, in creation order
  pc,              \* position inside step: idle, generate, assign,
                   \* dispatch, trains; crashed (RuntimeError of the
                   \* store) and node_not_found (raised by find_path)
                   \* after an exception has left step; done after run
  gi,              \* generator being served in phase 1
  ti,              \* train being updated in phase 4
  new_passenger_indices,  \* local of step
  boarding_count,  \* local of step
  alighting_count, \* local of step
  allocated,       \* history: indices handed out and not released since
  created_ids,     \* history (SpecStore): ids written into new records
  call,            \* history (SpecStore): the last allocator call
  board_log,       \* history: the Train.board calls of the current tick
  train_log,       \* history: the train-loop bodies run in the current tick
  makes_hist,      \* history: the make events emitted so far, in order
  train_hist,      \* history: per active train, its dispatch and terminal times
  plan_log,        \* history (SpecPaths): the PathTable.plan calls made
  route_log,       \* history (SpecRoute): the Map.find_path calls made
  line_obj,        \* (SpecLine) a Line under construction and use
  metrics_history, \* SimulationLoop.metrics_history (the tick of each record)
  flush_count,     \* history: calls of allocator.flush made by run
  left_behind,     \* history: ids of the passengers dequeue_for_boarding
                   \* returned that board did not take, over the whole run
  str_to_int,      \* (SpecMap) Map.str_to_int
  int_to_str,      \* (SpecMap) Map.int_to_str
  next_station_id, \* (SpecMap) Map._next_station_id
  map_call         \* history (SpecMap): the last add_station or add_line
                   \* call and the integer each string got first

store_vars == <<memmap, free_indices, next_id>>
map_vars == <<str_to_int, int_to_str, next_station_id, map_call>>
sim_vars == <<current_tick, current_time, waiting, paths, tgen, active_trains,
              pc, gi, ti, new_passenger_indices, boarding_count,
              alighting_count, board_log, train_log, makes_hist,
              train_hist, plan_log, route_log, line_obj, metrics_history,
              flush_count, left_behind, map_vars>>
vars == <<memmap, free_indices, next_id, current_tick, current_time, waiting,
          paths, tgen, active_trains, pc, gi, ti, new_passenger_indices,
          boarding_count, alighting_count, allocated, created_ids, call,
          board_log, train_log, makes_hist, train_hist, plan_log, route_log,
          line_obj, metrics_history, flush_count, left_behind, map_vars>>

\* The allocator object as one value, so that calls compose in sequence.
Store == [memmap |-> memmap, free_indices |-> free_indices, next_id |-> next_id]

\* ------------------------------------------------ MemmapAllocator methods
get_next_id_frozen(st) == [st |-> st, cid |-> st.next_id]

get_next_id(st) ==
  [st |-> [st EXCEPT !.next_id = @ + 1], cid |-> st.next_id]

\* for idx in range(capacity): if memmap['id'][idx] == 0
FirstZeroId(mm) ==
  IF \E i \in Idx : mm[i].id = 0
  THEN CHOOSE i \in Idx : mm[i].id = 0 /\ \A j \in Idx : j < i => mm[j].id # 0
  ELSE -1

allocate_index_fifo(st) ==
  IF st.free_indices # <<>>
  THEN [st |-> [st EXCEPT !.free_indices = Tail(st.free_indices)],
        idx |-> Head(st.free_indices), ok |-> TRUE]
  ELSE LET z == FirstZeroId(st.memmap) IN
       IF z # -1
       THEN LET g == get_next_id(st) IN
            [st |-> [g.st EXCEPT !.memmap[z].id = g.cid], idx |-> z, ok |-> TRUE]
       ELSE [st |-> st, idx |-> -1, ok |-> FALSE]

allocate_index(st) ==
  IF st.free_indices # <<>>
  THEN \* pop: the row is handed out with id still 0
       [st |-> [st EXCEPT !.free_indices = Front(st.free_indices)],
        idx |-> Last(st.free_indices), ok |-> TRUE]
  ELSE LET z == FirstZeroId(st.memmap) IN
       IF z # -1
       THEN LET g == get_next_id(st) IN
            [st |-> [g.st EXCEPT !.memmap[z].id = g.cid], idx |-> z, ok |-> TRUE]
       ELSE \* raise RuntimeError("Memmap capacity exceeded")
            [st |-> st, idx |-> -1, ok |-> FALSE]

\* for _ in range(n): indices.append(self.allocate_index())
\* An exception leaves the allocator as the calls made so far left it.
RECURSIVE AllocLoop(_, _, _)
AllocLoop(st, n, indices) ==
  IF n = 0 THEN [st |-> st, indices |-> indices, ok |-> TRUE]
  ELSE LET a == allocate_index(st) IN
       IF a.ok THEN AllocLoop(a.st, n - 1, Append(indices, a.idx))
       ELSE [st |-> a.st, indices |-> <<>>, ok |-> FALSE]

allocate_indices(st, n) == AllocLoop(st, n, <<>>)

release_index(st, idx) ==
  [st EXCEPT !.memmap[idx] = ZeroRow, !.free_indices = Append(@, idx)]

\* ------------------------------------------------------ CustomerGenerator
\* The writes of generate_customers for indices[i .. n], in order.
RECURSIVE WriteRows(_, _, _, _, _)
WriteRows(st, station_id, indices, dest_ids, i) ==
  IF i > Len(indices) THEN [st |-> st, ids |-> <<>>]
  ELSE LET g == get_next_id(st)
           row == [id |-> g.cid, origin_station_id |-> station_id,
                   dest_station_id |-> dest_ids[i],
                   current_station_id |-> station_id, on_train_id |-> 0,
                   state |-> WAITING, path_id |-> 0, total_wait_time |-> 0]
           rest == WriteRows([g.st EXCEPT !.memmap[indices[i]] = row],
                             station_id, indices, dest_ids, i + 1)
       IN [st |-> rest.st, ids |-> <<g.cid>> \o rest.ids]

\* generate_customers with the two random draws as inputs: n_arrivals is
\* Len(dest_ids) and dest_ids is the result of rng.choice.
generate_customers(st, station_id, dest_ids) ==
  IF Len(dest_ids) = 0
  THEN [st |-> st, indices |-> <<>>, ids |-> <<>>, ok |-> TRUE]
  ELSE LET a == allocate_indices(st, Len(dest_ids)) IN
       IF ~a.ok
       THEN [st |-> a.st, indices |-> <<>>, ids |-> <<>>, ok |-> FALSE]
       ELSE LET w == WriteRows(a.st, station_id, a.indices, dest_ids, 1) IN
            [st |-> w.st, indices |-> a.indices, ids |-> w.ids, ok |-> TRUE]

\* ------------------------------------------------------------ the network
\* The network of examples/simple_simulation_v2.py (stations 1, 2, 3 on
\* one bidirectional line T1, generators at stations 1 and 2), with
\* shorter travel times, a larger tick and a small train; a second line
\* T2 of one train between a stop 7, that add_line registers as an id
\* only, and station 2 (no Station object at 7: nobody waits or is generated
\* there), whose travel time is longer than a dwell as the example's 60 s and
\* 120 s are; a third line A1, added after T1 and without trains, that
\* runs beside T1 between 2 and 3; and a line B1, without trains, from a
\* fourth station to a stop 8, that no line joins to the others.

DT == 15               \* SimulationLoop.dt, seconds per tick
StartTime == 21600     \* sim.current_time = 6 * 3600.0 before run
DwellTime == 30        \* dwell_remaining = 30.0 on arrival
MinInterval == 10      \* min_interval of build_timetable
DaySeconds == 86400
HourSeconds == 3600
NegInf == -1           \* -float('inf') in last_departure_time

Stations == {1, 2, 3, 4}
Generators == <<1, 2>>     \* station_id of each CustomerGenerator

\* hash_mod stands for hash(line_id) % 1000, fixed for one Python process.
Lines ==
  << [line_id |-> "T1", line_code |-> "T1", station_list |-> <<1, 2, 3>>,
      time_between_stations |-> <<5, 15>>, headway |-> 60,
      service_start |-> 6, service_end |-> 22, capacity |-> 2,
      fleet_size |-> 2, hash_mod |-> 7],
     [line_id |-> "T2", line_code |-> "T2", station_list |-> <<7, 2>>,
      time_between_stations |-> <<45>>, headway |-> 60,
      service_start |-> 6, service_end |-> 22, capacity |-> 2,
      fleet_size |-> 1, hash_mod |-> 3],
     [line_id |-> "A1", line_code |-> "A1", station_list |-> <<2, 3>>,
      time_between_stations |-> <<15>>, headway |-> 60,
      service_start |-> 6, service_end |-> 22, capacity |-> 2,
      fleet_size |-> 0, hash_mod |-> 11],
     [line_id |-> "B1", line_code |-> "B1", station_list |-> <<4, 8>>,
      time_between_stations |-> <<15>>, headway |-> 60,
      service_start |-> 6, service_end |-> 22, capacity |-> 2,
      fleet_size |-> 0, hash_mod |-> 5] >>

LineNo == 1 .. Len(Lines)
Reverse(s) == [i \in 1 .. Len(s) |-> s[Len(s) + 1 - i]]

RECURSIVE SortedList(_)
SortedList(S) ==
  IF S = {} THEN <<>>
  ELSE LET m == CHOOSE x \in S : \A y \in S : x <= y
       IN <<m>> \o SortedList(S \ {m})

\* ---------------------------------------------------------------- Line
\* build_timetable: entries are <<arrival_time, station_id>>.
RECURSIVE TimetableFrom(_, _, _, _)
TimetableFrom(t, stations, times, i) ==
  IF i > Len(times) THEN <<>>
  ELSE LET t2 == t + Max(times[i], MinInterval)
       IN << <<t2, stations[i + 1]>> >> \o TimetableFrom(t2, stations, times, i + 1)

build_timetable(line, start_time, direction) ==
  LET stations == IF direction = 1 THEN line.station_list
                  ELSE Reverse(line.station_list)
      times == IF direction = 1 THEN line.time_between_stations
               ELSE Reverse(line.time_between_stations)
  IN << <<start_time, stations[1]>> >> \o TimetableFrom(start_time, stations, times, 1)

\* ----------------------------------------------------------- PathTable
\* A segment is <<line_code, from_station_id, to_station_id>>.
\* str(int): the decimal digits of a non-negative integer.
Digits == <<"0", "1", "2", "3", "4", "5", "6", "7", "8", "9">>

RECURSIVE IntStr(_)
IntStr(n) ==
  IF n < 10 THEN <<Digits[n + 1]>>
  ELSE IntStr(n \div 10) \o <<Digits[(n % 10) + 1]>>

\* repr of a segment tuple, as a list of tokens: ('T1', 1, 2)
SegmentStr(seg) ==
  <<"(", "'", seg[1], "'", ",", " ">> \o IntStr(seg[2]) \o <<",", " ">>
    \o IntStr(seg[3]) \o <<")">>

RECURSIVE JoinSegments(_, _)
JoinSegments(segments, i) ==
  IF i > Len(segments) THEN <<>>
  ELSE (IF i > 1 THEN <<",", " ">> ELSE <<>>)
         \o SegmentStr(segments[i]) \o JoinSegments(segments, i + 1)

\* _hash_path: md5(str(segments)); the digest is taken to identify the
\* string it was computed from.
hash_path(segments) == <<"[">> \o JoinSegments(segments, 1) \o <<"]">>

\* PathTable.plan: pt holds paths[1], paths[2], ... (next_path_id is
\* Len(pt) + 1), and path_hash_to_id maps the hash of pt[p] to p.
plan_no_dedup(pt, segments) ==
  [pt |-> Append(pt, segments), path_id |-> Len(pt) + 1]

plan(pt, segments) ==
  LET path_hash == hash_path(segments)
      known == {p \in 1 .. Len(pt) : hash_path(pt[p]) = path_hash}
  IN IF known # {}
     THEN [pt |-> pt, path_id |-> CHOOSE p \in known : TRUE]
     ELSE [pt |-> Append(pt, segments), path_id |-> Len(pt) + 1]

\* expand: None is modelled as the empty list (both are falsy for callers).
expand(pt, path_id) ==
  IF path_id \in 1 .. Len(pt) THEN pt[path_id] ELSE <<>>

\* ------------------------------------------------------------------ Map
\* _rebuild_graph: one undirected edge per line and adjacent station pair;
\* ord is the order in which add_edge is called (the MultiGraph edge key
\* order between one pair of nodes).
GraphEdges ==
  UNION { { [u |-> Lines[l].station_list[i], v |-> Lines[l].station_list[i + 1],
             weight |-> Lines[l].time_between_stations[i],
             line |-> Lines[l].line_code, ord |-> l * 100 + i] :
            i \in 1 .. Len(Lines[l].time_between_stations) } : l \in LineNo }

GraphNodes == {e.u : e \in GraphEdges} \cup {e.v : e \in GraphEdges}

EdgesBetween(a, b) ==
  {e \in GraphEdges : (e.u = a /\ e.v = b) \/ (e.u = b /\ e.v = a)}

Adj(a) == {b \in GraphNodes : EdgesBetween(a, b) # {}}

MinWeight(a, b) ==
  CHOOSE w \in {e.weight : e \in EdgesBetween(a, b)} :
    \A e \in EdgesBetween(a, b) : w <= e.weight

RECURSIVE SimplePaths(_, _)
SimplePaths(p, dest) ==
  IF Last(p) = dest THEN {p}
  ELSE UNION {SimplePaths(Append(p, b), dest) : b \in Adj(Last(p)) \ Range(p)}

RECURSIVE PathWeight(_)
PathWeight(p) ==
  IF Len(p) < 2 THEN 0
  ELSE MinWeight(p[1], p[2]) + PathWeight(Tail(p))

\* nx.shortest_path(graph, origin, dest, weight='weight'); the networks
\* modelled have one shortest node path per pair.
ShortestNodePath(origin, dest) ==
  LET ps == SimplePaths(<<origin>>, dest) IN
  IF ps = {} THEN <<>>
  ELSE CHOOSE p \in ps : \A q \in ps : PathWeight(p) <= PathWeight(q)

\* first_key = next(iter(edge_data)): the edge added first between the pair
FirstEdgeLine(a, b) ==
  (CHOOSE e \in EdgesBetween(a, b) : \A f \in EdgesBetween(a, b) : e.ord <= f.ord).line

\* find_path; raised: nx.NodeNotFound (a station no line serves is not a
\* node of the graph) is not caught by "except nx.NetworkXNoPath".
find_path_from_dest(pt, origin, dest) ==
  IF origin \notin GraphNodes \/ dest \notin GraphNodes
  THEN [pt |-> pt, path_id |-> 0, raised |-> TRUE]
  ELSE LET node_path == ShortestNodePath(dest, origin) IN
       IF node_path = <<>>
       THEN [pt |-> pt, path_id |-> 0, raised |-> FALSE]
       ELSE LET segments ==
                  [i \in 1 .. Len(node_path) - 1 |->
                     <<FirstEdgeLine(node_path[i], node_path[i + 1]),
                       node_path[i], node_path[i + 1]>>]
                pl == plan(pt, segments)
            IN [pt |-> pl.pt, path_id |-> pl.path_id, raised |-> FALSE]

find_path(pt, origin, dest) ==
  IF origin \notin GraphNodes \/ dest \notin GraphNodes
  THEN [pt |-> pt, path_id |-> 0, raised |-> TRUE]
  ELSE LET node_path == ShortestNodePath(origin, dest) IN
       IF node_path = <<>>
       THEN [pt |-> pt, path_id |-> 0, raised |-> FALSE]
       ELSE LET segments ==
                  [i \in 1 .. Len(node_path) - 1 |->
                     <<FirstEdgeLine(node_path[i], node_path[i + 1]),
                       node_path[i], node_path[i + 1]>>]
                pl == plan(pt, segments)
            IN [pt |-> pl.pt, path_id |-> pl.path_id, raised |-> FALSE]

\* ------------------------------------------------------- TrainGenerator
NewTrainGenerator ==
  [active_trains |-> {}, idle_pool |-> <<>>, train_id_counter |-> 0,
   last_departure_time |-> [d \in {1, -1} |-> NegInf]]

\* _create_train_id: int(f"{hash(line_id) % 1000}{counter:04d}")
create_train_id(gen, line) ==
  [gen |-> [gen EXCEPT !.train_id_counter = @ + 1],
   train_id |-> line.hash_mod * 10000 + gen.train_id_counter + 1]

\* allocate_train that makes a new id although the idle pool holds one
allocate_train_mints(gen, line) ==
  IF Cardinality(gen.active_trains) < line.fleet_size
  THEN LET c == create_train_id(gen, line) IN
       [gen |-> [c.gen EXCEPT !.active_trains = @ \cup {c.train_id}],
        train_id |-> c.train_id]
  ELSE [gen |-> gen, train_id |-> 0]

\* allocate_train; train_id 0 stands for None
allocate_train(gen, line) ==
  IF gen.idle_pool # <<>>
  THEN [gen |-> [gen EXCEPT !.idle_pool = Front(@),
                            !.active_trains = @ \cup {Last(gen.idle_pool)}],
        train_id |-> Last(gen.idle_pool)]
  ELSE IF Cardinality(gen.active_trains) < line.fleet_size
  THEN LET c == create_train_id(gen, line) IN
       [gen |-> [c.gen EXCEPT !.active_trains = @ \cup {c.train_id}],
        train_id |-> c.train_id]
  ELSE [gen |-> gen, train_id |-> 0]

release_train(gen, train_id) ==
  [gen EXCEPT !.active_trains = @ \ {train_id},
              !.idle_pool = Append(@, train_id)]

\* The body of "for direction in [1, -1]" of tick; acc is [gen, makes].
TickDirection_no_headway(acc, line, t, direction) ==
  LET gen == acc.gen IN
  IF Cardinality(gen.active_trains) < line.fleet_size
  THEN LET a == allocate_train(gen, line) IN
       IF a.train_id # 0
       THEN [gen |-> [a.gen EXCEPT !.last_departure_time[direction] = t],
             makes |-> Append(acc.makes,
                        [train_id |-> a.train_id, line_id |-> line.line_id,
                         direction |-> direction, depart_time |-> t,
                         max_capacity |-> line.capacity])]
       ELSE [gen |-> a.gen, makes |-> acc.makes]
  ELSE acc

TickDirection_no_fleet_limit(acc, line, t, direction) ==
  LET gen == acc.gen IN
  IF \/ gen.last_departure_time[direction] = NegInf
     \/ t - gen.last_departure_time[direction] >= line.headway
  THEN LET c == create_train_id(gen, line) IN
       [gen |-> [c.gen EXCEPT !.active_trains = @ \cup {c.train_id},
                              !.last_departure_time[direction] = t],
        makes |-> Append(acc.makes,
                   [train_id |-> c.train_id, line_id |-> line.line_id,
                    direction |-> direction, depart_time |-> t,
                    max_capacity |-> line.capacity])]
  ELSE acc

TickDirection(acc, line, t, direction) ==
  LET gen == acc.gen IN
  IF /\ Cardinality(gen.active_trains) < line.fleet_size
     /\ (gen.last_departure_time[direction] = NegInf
         \/ t - gen.last_departure_time[direction] >= line.headway)
  THEN LET a == allocate_train(gen, line) IN
       IF a.train_id # 0
       THEN [gen |-> [a.gen EXCEPT !.last_departure_time[direction] = t],
             makes |-> Append(acc.makes,
                        [train_id |-> a.train_id, line_id |-> line.line_id,
                         direction |-> direction, depart_time |-> t,
                         max_capacity |-> line.capacity])]
       ELSE [gen |-> a.gen, makes |-> acc.makes]
  ELSE acc

\* TrainGenerator.tick; hour = (current_time / 3600) % 24 for whole seconds
tick_at_any_hour(gen, line, t) ==
  TickDirection(TickDirection([gen |-> gen, makes |-> <<>>], line, t, 1),
                line, t, -1)

tick(gen, line, t) ==
  LET tod == t % DaySeconds IN
  IF tod < line.service_start * HourSeconds \/ tod >= line.service_end * HourSeconds
  THEN [gen |-> gen, makes |-> <<>>]
  ELSE TickDirection(TickDirection([gen |-> gen, makes |-> <<>>], line, t, 1),
                     line, t, -1)

\* History of one tick call on line number l: its make events, each with
\* the generator's last departure in that direction and its number of
\* active train ids just before the event.
MakeHistory(gen, l, makes) ==
  [i \in 1 .. Len(makes) |->
     [line |-> l, train_id |-> makes[i].train_id,
      direction |-> makes[i].direction, depart_time |-> makes[i].depart_time,
      prev |-> gen.last_departure_time[makes[i].direction],
      active_before |-> Cardinality(gen.active_trains) + i - 1]]

\* ---------------------------------------------------------------- Train
\* Train.__init__; None is 0; position_ratio (written, never read) is left out.
NewTrain_dwelling(train_id, line_id, timetable, max_capacity, direction) ==
  [id |-> train_id, line_id |-> line_id, timetable |-> timetable,
   max_capacity |-> max_capacity, current_capacity |-> 0,
   onboard_passengers |-> <<>>, direction |-> direction,
   status |-> "in_service", timetable_idx |-> 0,
   current_station_id |-> IF timetable # <<>> THEN timetable[1][2] ELSE 0,
   next_station_id |-> IF Len(timetable) > 1 THEN timetable[2][2] ELSE 0,
   dwell_remaining |-> DwellTime]

NewTrain(train_id, line_id, timetable, max_capacity, direction) ==
  [id |-> train_id, line_id |-> line_id, timetable |-> timetable,
   max_capacity |-> max_capacity, current_capacity |-> 0,
   onboard_passengers |-> <<>>, direction |-> direction,
   status |-> "in_service", timetable_idx |-> 0,
   current_station_id |-> IF timetable # <<>> THEN timetable[1][2] ELSE 0,
   next_station_id |-> IF Len(timetable) > 1 THEN timetable[2][2] ELSE 0,
   dwell_remaining |-> 0]

\* Train.step; timetable_idx counts from 0 as in the code
step_ignores_schedule(tr, dt, t) ==
  IF tr.status # "in_service" \/ tr.timetable = <<>>
  THEN [train |-> tr, arrived |-> FALSE]
  ELSE IF tr.dwell_remaining > 0
  THEN [train |-> [tr EXCEPT !.dwell_remaining = Max(0, @ - dt)],
        arrived |-> FALSE]
  ELSE IF tr.timetable_idx >= Len(tr.timetable) - 1
  THEN [train |-> tr, arrived |-> FALSE]
  ELSE LET next == tr.timetable[tr.timetable_idx + 2]
           idx2 == tr.timetable_idx + 1
       IN [train |->
             [tr EXCEPT !.current_station_id = next[2],
                        !.timetable_idx = idx2,
                        !.next_station_id =
                           IF idx2 < Len(tr.timetable) - 1
                           THEN tr.timetable[idx2 + 2][2] ELSE 0,
                        !.dwell_remaining = DwellTime],
           arrived |-> TRUE]

step_skips_ahead(tr, dt, t) ==
  IF tr.status # "in_service" \/ tr.timetable = <<>>
  THEN [train |-> tr, arrived |-> FALSE]
  ELSE IF tr.dwell_remaining > 0
  THEN [train |-> [tr EXCEPT !.dwell_remaining = Max(0, @ - dt)],
        arrived |-> FALSE]
  ELSE IF tr.timetable_idx >= Len(tr.timetable) - 1
  THEN [train |-> tr, arrived |-> FALSE]
  ELSE LET passed == {j \in tr.timetable_idx + 1 .. Len(tr.timetable) - 1 :
                        t >= tr.timetable[j + 1][1]}
       IN IF passed # {}
          THEN LET idx2 == CHOOSE j \in passed : \A i \in passed : i <= j IN
               [train |->
                  [tr EXCEPT !.current_station_id = tr.timetable[idx2 + 1][2],
                             !.timetable_idx = idx2,
                             !.next_station_id =
                                IF idx2 < Len(tr.timetable) - 1
                                THEN tr.timetable[idx2 + 2][2] ELSE 0,
                             !.dwell_remaining = DwellTime],
                arrived |-> TRUE]
          ELSE [train |-> tr, arrived |-> FALSE]

step(tr, dt, t) ==
  IF tr.status # "in_service" \/ tr.timetable = <<>>
  THEN [train |-> tr, arrived |-> FALSE]
  ELSE IF tr.dwell_remaining > 0
  THEN [train |-> [tr EXCEPT !.dwell_remaining = Max(0, @ - dt)],
        arrived |-> FALSE]
  ELSE IF tr.timetable_idx >= Len(tr.timetable) - 1
  THEN [train |-> tr, arrived |-> FALSE]
  ELSE LET next == tr.timetable[tr.timetable_idx + 2]
           idx2 == tr.timetable_idx + 1
       IN IF t >= next[1]
          THEN [train |->
                  [tr EXCEPT !.current_station_id = next[2],
                             !.timetable_idx = idx2,
                             !.next_station_id =
                                IF idx2 < Len(tr.timetable) - 1
                                THEN tr.timetable[idx2 + 2][2] ELSE 0,
                             !.dwell_remaining = DwellTime],
                arrived |-> TRUE]
          ELSE [train |-> tr, arrived |-> FALSE]

\* memmap[arr][field] = value with arr an ndarray of indices: memmap[arr]
\* is a copy (advanced indexing), so the store keeps its rows.
SetFieldByArray(mm, arr, field, value) == mm

\* Train.board
board_no_capacity_check(tr, passenger_indices, mm) ==
  [train |-> [tr EXCEPT !.onboard_passengers = @ \o passenger_indices,
                        !.current_capacity = @ + Len(passenger_indices)],
   boarded |-> passenger_indices, memmap |-> mm]

board_takes_last(tr, passenger_indices, mm) ==
  LET available_capacity == tr.max_capacity - tr.current_capacity
      can_board == Min(Len(passenger_indices), available_capacity)
  IN IF can_board <= 0
     THEN [train |-> tr, boarded |-> <<>>, memmap |-> mm]
     ELSE LET boarded == SubSeq(passenger_indices,
                                Len(passenger_indices) - can_board + 1,
                                Len(passenger_indices)) IN
          [train |-> [tr EXCEPT !.onboard_passengers = @ \o boarded,
                                !.current_capacity = @ + can_board],
           boarded |-> boarded, memmap |-> mm]

board(tr, passenger_indices, mm) ==
  LET available_capacity == tr.max_capacity - tr.current_capacity
      can_board == Min(Len(passenger_indices), available_capacity)
  IN IF can_board <= 0
     THEN [train |-> tr, boarded |-> <<>>, memmap |-> mm]
     ELSE LET boarded == SubSeq(passenger_indices, 1, can_board) IN
          [train |-> [tr EXCEPT !.onboard_passengers = @ \o boarded,
                                !.current_capacity = @ + can_board],
           boarded |-> boarded,
           memmap |-> SetFieldByArray(
                        SetFieldByArray(mm, boarded, "on_train_id", tr.id),
                        boarded, "state", ONBOARD)]

\* Train.alight
alight_everyone(tr, mm) ==
  IF tr.onboard_passengers = <<>> \/ tr.current_station_id = 0
  THEN [train |-> tr, alighting |-> <<>>, memmap |-> mm]
  ELSE [train |-> [tr EXCEPT !.onboard_passengers = <<>>,
                             !.current_capacity = 0],
        alighting |-> tr.onboard_passengers, memmap |-> mm]

alight_first_only(tr, mm) ==
  IF tr.onboard_passengers = <<>> \/ tr.current_station_id = 0
  THEN [train |-> tr, alighting |-> <<>>, memmap |-> mm]
  ELSE LET Leaves(idx) == mm[idx].dest_station_id = tr.current_station_id
           leaving == SelectSeq(tr.onboard_passengers, Leaves)
           alighting == SubSeq(leaving, 1, Min(1, Len(leaving)))
           Stays(idx) == idx \notin Range(alighting)
           staying == SelectSeq(tr.onboard_passengers, Stays)
       IN [train |-> [tr EXCEPT !.onboard_passengers = staying,
                                !.current_capacity = Len(staying)],
           alighting |-> alighting, memmap |-> mm]

alight(tr, mm) ==
  IF tr.onboard_passengers = <<>> \/ tr.current_station_id = 0
  THEN [train |-> tr, alighting |-> <<>>, memmap |-> mm]
  ELSE LET Leaves(idx) == mm[idx].dest_station_id = tr.current_station_id
           Stays(idx) == ~Leaves(idx)
           alighting == SelectSeq(tr.onboard_passengers, Leaves)
           staying == SelectSeq(tr.onboard_passengers, Stays)
       IN [train |-> [tr EXCEPT !.onboard_passengers = staying,
                                !.current_capacity = Len(staying)],
           alighting |-> alighting,
           memmap |-> IF Len(alighting) > 0
                      THEN SetFieldByArray(
                             SetFieldByArray(
                               SetFieldByArray(mm, alighting, "on_train_id", 0),
                               alighting, "state", ARRIVED),
                             alighting, "current_station_id", tr.current_station_id)
                      ELSE mm]

\* Train.reverse_direction
reverse_direction_keeps_heading(tr) ==
  LET tt == Reverse(tr.timetable) IN
  [tr EXCEPT !.timetable_idx = 0, !.timetable = tt,
             !.current_station_id = IF tt # <<>> THEN tt[1][2] ELSE @,
             !.next_station_id = IF Len(tt) > 1 THEN tt[2][2] ELSE @]

reverse_direction(tr) ==
  LET tt == Reverse(tr.timetable) IN
  [tr EXCEPT !.direction = -1 * @, !.timetable_idx = 0, !.timetable = tt,
             !.current_station_id = IF tt # <<>> THEN tt[1][2] ELSE @,
             !.next_station_id = IF Len(tt) > 1 THEN tt[2][2] ELSE @]

\* -------------------------------------------------------------- Station
\* dequeue_for_boarding.  list(set(waiting) - set(eligible)): a CPython set
\* of small non-negative ints (below the table size, 8 at least) iterates
\* in ascending order, and holds each index once.
dequeue_for_boarding_everyone(wq, station_id, train_line_id, mm, pt) ==
  [eligible |-> wq, waiting |-> <<>>]

dequeue_for_boarding_any_line(wq, station_id, train_line_id, mm, pt) ==
  IF wq = <<>> THEN [eligible |-> <<>>, waiting |-> wq]
  ELSE LET Elig(idx) ==
             /\ mm[idx].path_id # 0
             /\ LET segments == expand(pt, mm[idx].path_id) IN
                \E k \in 1 .. Len(segments) : segments[k][2] = station_id
           eligible == SelectSeq(wq, Elig)
       IN [eligible |-> eligible,
           waiting |-> SortedList(Range(wq) \ Range(eligible))]

dequeue_for_boarding_keeps_queue(wq, station_id, train_line_id, mm, pt) ==
  IF wq = <<>> THEN [eligible |-> <<>>, waiting |-> wq]
  ELSE LET Elig(idx) ==
             /\ mm[idx].path_id # 0
             /\ LET segments == expand(pt, mm[idx].path_id) IN
                \E k \in 1 .. Len(segments) :
                   segments[k][1] = train_line_id /\ segments[k][2] = station_id
           eligible == SelectSeq(wq, Elig)
       IN [eligible |-> eligible, waiting |-> wq]

dequeue_for_boarding(wq, station_id, train_line_id, mm, pt) ==
  IF wq = <<>> THEN [eligible |-> <<>>, waiting |-> wq]
  ELSE LET Elig(idx) ==
             /\ mm[idx].path_id # 0
             /\ LET segments == expand(pt, mm[idx].path_id) IN
                \E k \in 1 .. Len(segments) :
                   segments[k][1] = train_line_id /\ segments[k][2] = station_id
           eligible == SelectSeq(wq, Elig)
       IN [eligible |-> eligible,
           waiting |-> SortedList(Range(wq) \ Range(eligible))]

\* -------------------------------------------------------------- the store
\* History record of an allocator call.  pending: the indices released
\* since the last allocation call began a new run of releases; served: how
\* many single allocations in a row the LIFO rule has determined.
NoCall == [op |-> "none", n |-> 0, result |-> <<>>, failed |-> FALSE,
           allocated_before |-> {}, expect |-> -1, pending |-> <<>>,
           served |-> 0]

InitStoreVars ==
  /\ memmap = [i \in Idx |-> ZeroRow]
  /\ free_indices = <<>>
  /\ next_id = 1
  /\ allocated = {}
  /\ created_ids = <<>>
  /\ call = NoCall

\* No add_station or add_line call has been made.
NoMapCall == [op |-> "none", str_id |-> "", result |-> 0, raised |-> FALSE,
              first |-> <<>>]

\* No Line has been constructed.
NoLine == [stage |-> "none"]

InitLoopVars ==
  /\ current_tick = 0
  /\ waiting = [s \in Stations |-> <<>>]
  /\ paths = <<>>
  /\ tgen = [l \in LineNo |-> NewTrainGenerator]
  /\ active_trains = <<>>
  /\ pc = "idle"
  /\ gi = 0
  /\ ti = 0
  /\ new_passenger_indices = <<>>
  /\ boarding_count = 0
  /\ alighting_count = 0
  /\ board_log = <<>>
  /\ train_log = <<>>
  /\ makes_hist = <<>>
  /\ train_hist = <<>>
  /\ plan_log = <<>>
  /\ route_log = <<>>
  /\ line_obj = NoLine
  /\ metrics_history = <<>>
  /\ flush_count = 0
  /\ left_behind = {}
  /\ str_to_int = <<>>
  /\ int_to_str = <<>>
  /\ next_station_id = 1
  /\ map_call = NoMapCall

InitSimVars == current_time = StartTime /\ InitLoopVars

Init == InitStoreVars /\ InitSimVars

SetStore(st) ==
  /\ memmap' = st.memmap
  /\ free_indices' = st.free_indices
  /\ next_id' = st.next_id

\* The history of an allocate_indices(n) call made through
\* generate_customers with result g.  expect is the index that the
\* releases made since the last allocation determine for a single
\* allocation (the last one released and not yet handed out again).
AllocCall(n, g) ==
  LET ruled == n = 1 /\ call.pending # <<>> IN
  [op |-> "alloc", n |-> n, result |-> g.indices, failed |-> ~g.ok,
   allocated_before |-> allocated,
   expect |-> IF ruled THEN Last(call.pending) ELSE -1,
   pending |-> IF ruled THEN Front(call.pending) ELSE <<>>,
   served |-> IF ruled THEN call.served + 1 ELSE 0]

ReleaseCall(idx) ==
  [op |-> "release", n |-> 0, result |-> <<idx>>, failed |-> FALSE,
   allocated_before |-> allocated, expect |-> -1,
   pending |-> IF call.op = "release" THEN Append(call.pending, idx)
               ELSE <<idx>>,
   served |-> 0]

\* A caller draws n >= 1 arrivals and calls generate_customers.
StoreGenerate ==
  /\ next_id <= MaxNextId
  /\ \E n \in 1 .. MaxArrivals :
       LET g == generate_customers(Store, 1, [i \in 1 .. n |-> 2]) IN
       /\ SetStore(g.st)
       /\ allocated' = allocated \cup Range(g.indices)
       /\ created_ids' = created_ids \o g.ids
       /\ call' = AllocCall(n, g)
  /\ UNCHANGED sim_vars

\* A caller releases an index it holds.
StoreRelease ==
  /\ \E idx \in allocated :
       /\ SetStore(release_index(Store, idx))
       /\ allocated' = allocated \ {idx}
       /\ call' = ReleaseCall(idx)
  /\ UNCHANGED <<created_ids, sim_vars>>

NextStore == StoreGenerate \/ StoreRelease
SpecStore == Init /\ [][NextStore]_vars

\* ------------------------------------------------------ the generators
\* The train generators driven directly: tick is called at times that go
\* up by the caller's step, and release_train returns a train to the pool.
MaxGenTicks == 5       \* tick calls made on each generator
GenSteps == {15, 45}   \* seconds between two tick calls
\* two ticks before service starts (6 h) and three before it ends (22 h)
GenStartTimes == {6 * HourSeconds - 30, 22 * HourSeconds - 45}

RECURSIVE GenHistory(_, _, _)
GenHistory(tg, t, l) ==
  IF l > Len(Lines) THEN <<>>
  ELSE MakeHistory(tg[l], l, tick(tg[l], Lines[l], t).makes)
         \o GenHistory(tg, t, l + 1)

InitGen ==
  /\ InitStoreVars
  /\ current_time \in GenStartTimes
  /\ InitLoopVars

GenTick ==
  /\ current_tick < MaxGenTicks
  /\ \E d \in GenSteps :
       LET t == current_time + d IN
       /\ current_time' = t
       /\ tgen' = [l \in LineNo |-> tick(tgen[l], Lines[l], t).gen]
       /\ makes_hist' = makes_hist \o GenHistory(tgen, t, 1)
  /\ current_tick' = current_tick + 1
  /\ UNCHANGED <<store_vars, waiting, paths, active_trains, pc, gi, ti,
                 new_passenger_indices, boarding_count, alighting_count,
                 allocated, created_ids, call, board_log, train_log,
                 train_hist, plan_log,
                 route_log, line_obj, metrics_history, flush_count,
                 left_behind, map_vars>>

GenRelease ==
  /\ \E l \in LineNo :
       \E train_id \in tgen[l].active_trains :
         tgen' = [tgen EXCEPT ![l] = release_train(@, train_id)]
  /\ UNCHANGED <<store_vars, current_tick, current_time, waiting, paths,
                 active_trains, pc, gi, ti, new_passenger_indices,
                 boarding_count, alighting_count, allocated, created_ids,
                 call, board_log, train_log, makes_hist, train_hist,
                 plan_log,
                 route_log, line_obj, metrics_history, flush_count,
                 left_behind, map_vars>>

NextGen == GenTick \/ GenRelease
SpecGen == InitGen /\ [][NextGen]_vars

\* ------------------------------------------------------- the path table
\* The path table driven directly by a sequence of plan calls, each
\* followed by expand of the id it returned.
MaxPlans == 3          \* plan calls made
SegmentPool == {<<"T1", 1, 2>>, <<"T1", 2, 3>>, <<"T2", 1, 2>>, <<"T1", 12, 3>>}
SegmentLists ==
  {<<>>} \cup {<<a>> : a \in SegmentPool}
         \cup {<<a, b>> : a \in SegmentPool, b \in SegmentPool}

PlanCall ==
  /\ Len(plan_log) < MaxPlans
  /\ \E segments \in SegmentLists :
       LET pl == plan(paths, segments) IN
       /\ paths' = pl.pt
       /\ plan_log' = Append(plan_log,
                             [segments |-> segments, path_id |-> pl.path_id,
                              expanded |-> expand(pl.pt, pl.path_id)])
  /\ UNCHANGED <<store_vars, current_tick, current_time, waiting, tgen,
                 active_trains, pc, gi, ti, new_passenger_indices,
                 boarding_count, alighting_count, allocated, created_ids,
                 call, board_log, train_log, makes_hist, train_hist,
                 route_log, line_obj, metrics_history, flush_count,
                 left_behind, map_vars>>

NextPaths == PlanCall
SpecPaths == Init /\ [][NextPaths]_vars

\* ------------------------------------------------------------ the routes
\* The map driven directly by a sequence of find_path calls between
\* registered stations; an exception that find_path lets through ends the
\* sequence.
MaxRoutes == 2         \* find_path calls made
\* map.stations after add_station has registered one station more, that
\* no line serves
RouteStations == Stations \cup {Cardinality(Stations) + 1}

FindPathCall ==
  /\ pc = "idle"
  /\ Len(route_log) < MaxRoutes
  /\ \E origin \in RouteStations, dest \in RouteStations :
       LET fp == find_path(paths, origin, dest) IN
       /\ paths' = fp.pt
       /\ route_log' = Append(route_log,
                              [origin |-> origin, dest |-> dest,
                               path_id |-> fp.path_id, raised |-> fp.raised,
                               paths_before |-> paths, paths_after |-> fp.pt])
       /\ pc' = IF fp.raised THEN "node_not_found" ELSE pc
  /\ UNCHANGED <<store_vars, current_tick, current_time, waiting, tgen,
                 active_trains, gi, ti, new_passenger_indices,
                 boarding_count, alighting_count, allocated, created_ids,
                 call, board_log, train_log, makes_hist, train_hist,
                 plan_log, line_obj, metrics_history, flush_count,
                 left_behind, map_vars>>

NextRoute == FindPathCall
SpecRoute == Init /\ [][NextRoute]_vars

\* ------------------------------------------------------------- the lines
\* A line built from the lists a caller supplies, then added to a map and
\* used: the engine's Line (rail_sim/line.py) and, from the same lists,
\* the Line of RailedBase.py.  An optional result is a list: <<>> is
\* None, <<v>> is the value v.
MaxStops == 3          \* longest list of stations and of travel times
StopPool == {1, 2, 3}
TimePool == {5, 15}
ListsOver(S, n) == UNION {[1 .. k -> S] : k \in 0 .. n}
StopLists == {q \in ListsOver(StopPool, MaxStops) : NoDup(q)}
TimeLists == ListsOver(TimePool, MaxStops)

\* list.index, counted from 0; -1: ValueError
IndexOf(q, x) ==
  IF x \notin Range(q) THEN -1
  ELSE (CHOOSE k \in 1 .. Len(q) : q[k] = x /\ \A j \in 1 .. k - 1 : q[j] # x) - 1

\* rail_sim Line.__init__: the lists are stored as given.
NewLine(station_list, time_between_stations) ==
  [station_list_original |-> station_list, station_list |-> <<>>,
   time_between_stations |-> time_between_stations]

\* Map.add_line: station_list is filled in and _rebuild_graph reads
\* time_between_stations[i] for every i in range(len(station_list) - 1);
\* raised: IndexError.
add_line(line) ==
  [line |-> [line EXCEPT !.station_list = line.station_list_original],
   raised |-> Len(line.station_list_original) - 1
                > Len(line.time_between_stations)]

\* build_timetable reads stations[0] and stations[i + 1] for every i in
\* range(len(times)): IndexError when the stations do not reach that far.
build_timetable_raises(line) ==
  \/ line.station_list = <<>>
  \/ Len(line.time_between_stations) > Len(line.station_list) - 1

\* rail_sim Line.get_travel_time
get_travel_time(line, from_id, to_id) ==
  LET from_idx == IndexOf(line.station_list, from_id)
      to_idx == IndexOf(line.station_list, to_id)
      idx == Min(from_idx, to_idx)
  IN IF from_idx = -1 \/ to_idx = -1 THEN <<>>
     ELSE IF (to_idx - from_idx) \in {1, -1}
               /\ idx < Len(line.time_between_stations)
     THEN <<line.time_between_stations[idx + 1]>>
     ELSE <<>>

\* RailedBase Line.__init__; ok = FALSE: ValueError
RailedBaseLine(stops, travel_times) ==
  [ok |-> Len(travel_times) = Len(stops) - 1, stops |-> stops,
   travel_times |-> travel_times]

\* RailedBase Line.get_travel_time: sum(travel_times[from_idx:to_idx])
RailedBase_get_travel_time(line, from_station, to_station) ==
  LET from_idx == IndexOf(line.stops, from_station)
      to_idx == IndexOf(line.stops, to_station)
  IN IF from_idx = -1 \/ to_idx = -1 THEN <<>>
     ELSE IF from_idx >= to_idx THEN <<>>
     ELSE <<SumSeq(SubSeq(line.travel_times, from_idx + 1,
                         Min(to_idx, Len(line.travel_times))))>>

\* test_forward_travel and test_backward_travel: the results of
\* get_travel_time from each stop to the next one of the walk.
Walk(stops, line) ==
  [k \in 1 .. Len(stops) - 1 |-> get_travel_time(line, stops[k], stops[k + 1])]

RailedBase_Walk(stops, line) ==
  [k \in 1 .. Len(stops) - 1 |->
     RailedBase_get_travel_time(line, stops[k], stops[k + 1])]

ConstructLine ==
  /\ line_obj.stage = "none"
  /\ \E stops \in StopLists, times \in TimeLists :
       line_obj' = [stage |-> "constructed", line |-> NewLine(stops, times),
                    base |-> RailedBaseLine(stops, times),
                    timetable |-> <<>>, forward |-> <<>>, backward |-> <<>>,
                    base_forward |-> <<>>, base_backward |-> <<>>]
  /\ UNCHANGED <<store_vars, current_tick, current_time, waiting, paths,
                 tgen, active_trains, pc, gi, ti, new_passenger_indices,
                 boarding_count, alighting_count, allocated, created_ids,
                 call, board_log, train_log, makes_hist, train_hist,
                 plan_log, route_log, metrics_history, flush_count,
                 left_behind, map_vars>>

AddLine ==
  /\ line_obj.stage = "constructed"
  /\ LET a == add_line(line_obj.line) IN
     line_obj' = [line_obj EXCEPT
                    !.line = a.line,
                    !.stage = IF a.raised THEN "add_line_raised" ELSE "added"]
  /\ UNCHANGED <<store_vars, current_tick, current_time, waiting, paths,
                 tgen, active_trains, pc, gi, ti, new_passenger_indices,
                 boarding_count, alighting_count, allocated, created_ids,
                 call, board_log, train_log, makes_hist, train_hist,
                 plan_log, route_log, metrics_history, flush_count,
                 left_behind, map_vars>>

BuildTimetable ==
  /\ line_obj.stage \in {"constructed", "added"}
  /\ \E direction \in {1, -1} :
       line_obj' =
         IF build_timetable_raises(line_obj.line)
         THEN [line_obj EXCEPT !.stage = "build_timetable_raised"]
         ELSE [line_obj EXCEPT
                 !.stage = "timetable",
                 !.timetable = build_timetable(line_obj.line, current_time,
                                               direction)]
  /\ UNCHANGED <<store_vars, current_tick, current_time, waiting, paths,
                 tgen, active_trains, pc, gi, ti, new_passenger_indices,
                 boarding_count, alighting_count, allocated, created_ids,
                 call, board_log, train_log, makes_hist, train_hist,
                 plan_log, route_log, metrics_history, flush_count,
                 left_behind, map_vars>>

TravelTimes ==
  /\ line_obj.stage = "added"
  /\ LET stops == line_obj.line.station_list IN
     line_obj' =
       [line_obj EXCEPT
          !.stage = "walked",
          !.forward = Walk(stops, line_obj.line),
          !.backward = Walk(Reverse(stops), line_obj.line),
          !.base_forward =
             IF line_obj.base.ok THEN RailedBase_Walk(stops, line_obj.base)
             ELSE <<>>,
          !.base_backward =
             IF line_obj.base.ok
             THEN RailedBase_Walk(Reverse(stops), line_obj.base)
             ELSE <<>>]
  /\ UNCHANGED <<store_vars, current_tick, current_time, waiting, paths,
                 tgen, active_trains, pc, gi, ti, new_passenger_indices,
                 boarding_count, alighting_count, allocated, created_ids,
                 call, board_log, train_log, makes_hist, train_hist,
                 plan_log, route_log, metrics_history, flush_count,
                 left_behind, map_vars>>

NextLine == ConstructLine \/ AddLine \/ BuildTimetable \/ TravelTimes
SpecLine == Init /\ [][NextLine]_vars

\* ------------------------------------------------- SimulationLoop.step
\* step: current_tick += 1; current_time += dt (run calls step n_ticks times)
BeginTick ==
  /\ pc = "idle"
  /\ current_tick < MaxTicks
  /\ current_tick' = current_tick + 1
  /\ current_time' = current_time + DT
  /\ new_passenger_indices' = <<>>
  /\ boarding_count' = 0
  /\ alighting_count' = 0
  /\ board_log' = <<>>
  /\ train_log' = <<>>
  /\ gi' = 1
  /\ pc' = "generate"
  /\ UNCHANGED <<memmap, free_indices, next_id, waiting, paths, tgen,
                 active_trains, ti, allocated, created_ids, call,
                 makes_hist, train_hist, plan_log,
                 route_log, line_obj, metrics_history, flush_count,
                 left_behind, map_vars>>

\* destinations = [sid for sid in self.map.stations.keys()
\*                 if sid != gen.station_id]
Destinations_all(station_id) == Stations

Destinations(station_id) == Stations \ {station_id}

\* Phase 1, one generator: the body of "for gen in customer_generators".
\* A generator without destinations is skipped ("continue").
\* The Poisson draw n and the rng.choice draw dest_ids are the inputs.  A
\* RuntimeError of the allocator leaves step and run.
Generate ==
  /\ pc = "generate"
  /\ LET station_id == Generators[gi]
         destinations == Destinations(station_id)
         more == gi < Len(Generators)
     IN \E n \in 0 .. MaxArrivals :
          /\ n > 0 => next_id <= MaxCreated /\ destinations # {}
          /\ \E dest_ids \in [1 .. n -> destinations] :
               LET g == generate_customers(Store, station_id, dest_ids) IN
               /\ SetStore(g.st)
               /\ allocated' = allocated \cup Range(g.indices)
               /\ new_passenger_indices' = new_passenger_indices \o g.indices
               /\ pc' = IF ~g.ok THEN "crashed"
                        ELSE IF more THEN "generate" ELSE "assign"
               /\ gi' = IF g.ok /\ more THEN gi + 1 ELSE gi
  /\ UNCHANGED <<current_tick, current_time, waiting, paths, tgen,
                 active_trains, ti, boarding_count, alighting_count,
                 created_ids, call, board_log, train_log, makes_hist,
                 train_hist, plan_log,
                 route_log, line_obj, metrics_history, flush_count,
                 left_behind, map_vars>>

\* Phase 2: assign_path_to_customer and enqueue_passenger for idxs[i..].
\* w is [memmap, paths, waiting, raised].
RECURSIVE AssignLoop(_, _, _)
AssignLoop(w, idxs, i) ==
  IF i > Len(idxs) THEN w
  ELSE LET idx == idxs[i]
           origin == w.memmap[idx].origin_station_id
           dest == w.memmap[idx].dest_station_id
           fp == find_path(w.paths, origin, dest)
       IN IF fp.raised THEN [w EXCEPT !.raised = TRUE]
          ELSE AssignLoop(
                 [memmap |-> [w.memmap EXCEPT ![idx].path_id = fp.path_id],
                  paths |-> fp.pt,
                  waiting |-> IF origin \in Stations
                              THEN [w.waiting EXCEPT ![origin] = Append(@, idx)]
                              ELSE w.waiting,
                  raised |-> FALSE],
                 idxs, i + 1)

AssignPaths ==
  /\ pc = "assign"
  /\ LET w == AssignLoop([memmap |-> memmap, paths |-> paths,
                          waiting |-> waiting, raised |-> FALSE],
                         new_passenger_indices, 1)
     IN /\ memmap' = w.memmap
        /\ paths' = w.paths
        /\ waiting' = w.waiting
        /\ pc' = IF w.raised THEN "node_not_found" ELSE "dispatch"
  /\ UNCHANGED <<free_indices, next_id, current_tick, current_time, tgen,
                 active_trains, gi, ti, new_passenger_indices, boarding_count,
                 alighting_count, allocated, created_ids, call, board_log,
                 train_log, makes_hist, train_hist, plan_log,
                 route_log, line_obj, metrics_history, flush_count,
                 left_behind, map_vars>>

\* Phase 3: "for line in self.map.lines", lines l.. ; acc is [tgen, trains].
RECURSIVE MakeTrains(_, _, _, _)
MakeTrains(trains, line, makes, i) ==
  IF i > Len(makes) THEN trains
  ELSE MakeTrains(
         Append(trains,
                NewTrain(makes[i].train_id, line.line_id,
                         build_timetable(line, current_time, makes[i].direction),
                         makes[i].max_capacity, makes[i].direction)),
         line, makes, i + 1)

\* History of a train at its creation: far and back are the times of its
\* first and second arrival at a last timetable entry (-1: not yet).
NewTrainHistory(made) ==
  [i \in 1 .. Len(made) |->
     [train_id |-> made[i].train_id, dispatched_at |-> made[i].depart_time,
      far |-> -1, back |-> -1]]

RECURSIVE DispatchLoop(_, _)
DispatchLoop(acc, l) ==
  IF l > Len(Lines) THEN acc
  ELSE LET tk == tick(acc.tgen[l], Lines[l], current_time) IN
       DispatchLoop([tgen |-> [acc.tgen EXCEPT ![l] = tk.gen],
                     trains |-> MakeTrains(acc.trains, Lines[l], tk.makes, 1),
                     made |-> acc.made \o MakeHistory(acc.tgen[l], l, tk.makes)],
                    l + 1)

Dispatch ==
  /\ pc = "dispatch"
  /\ LET acc == DispatchLoop([tgen |-> tgen, trains |-> active_trains,
                              made |-> <<>>], 1) IN
     /\ tgen' = acc.tgen
     /\ active_trains' = acc.trains
     /\ makes_hist' = makes_hist \o acc.made
     /\ train_hist' = train_hist \o NewTrainHistory(acc.made)
  /\ ti' = 1
  /\ pc' = "trains"
  /\ UNCHANGED <<memmap, free_indices, next_id, current_tick, current_time,
                 waiting, paths, gi, new_passenger_indices, boarding_count,
                 alighting_count, allocated, created_ids, call, board_log,
                 train_log, plan_log,
                 route_log, line_obj, metrics_history, flush_count,
                 left_behind, map_vars>>

\* for idx in alighted: self.allocator.release_index(idx)
RECURSIVE ReleaseAll(_, _, _)
ReleaseAll(st, idxs, i) ==
  IF i > Len(idxs) THEN st
  ELSE ReleaseAll(release_index(st, idxs[i]), idxs, i + 1)

\* The line of a train: "for line in self.map.lines: if line.line_id == ..."
LineOf(line_id) ==
  Lines[CHOOSE l \in LineNo :
          Lines[l].line_id = line_id
          /\ \A k \in LineNo : Lines[k].line_id = line_id => l <= k]

\* Phase 4, one train: the body of "for train in self.active_trains".
\* The result is [train, st, waiting, alighted, boarded, log].
TrainBody_boards_first(tr0, st, wq) ==
  LET s == step(tr0, DT, current_time)
      tr1 == s.train
      quiet == [train |-> tr1, st |-> st, waiting |-> wq, alighted |-> <<>>,
                boarded |-> <<>>, log |-> <<>>]
  IN IF ~((s.arrived \/ tr1.dwell_remaining > 0) /\ tr1.current_station_id # 0)
     THEN quiet
     ELSE
       LET al == IF s.arrived THEN alight(tr1, st.memmap)
                 ELSE [train |-> tr1, alighting |-> <<>>, memmap |-> st.memmap]
           \* memmap[alighted]['tap_off_ts'] is not modelled (never read)
           st2 == ReleaseAll([st EXCEPT !.memmap = al.memmap], al.alighting, 1)
           tr2 == al.train
       IN IF s.arrived /\ tr2.timetable_idx >= Len(tr2.timetable) - 1
          THEN \* terminal: reverse, rebuild the timetable, dwell, continue
               LET r == reverse_direction(tr2)
                   line == LineOf(r.line_id)
               IN [train |-> [r EXCEPT !.timetable =
                                          build_timetable(line, current_time, r.direction),
                                       !.timetable_idx = 0,
                                       !.status = "in_service",
                                       !.dwell_remaining = DwellTime],
                   st |-> st2, waiting |-> wq, alighted |-> al.alighting,
                   boarded |-> <<>>, log |-> <<>>]
          ELSE IF tr2.current_station_id \in Stations /\ tr2.dwell_remaining > 0
          THEN LET sid == tr1.current_station_id
                   dq == dequeue_for_boarding(wq[sid], sid, tr1.line_id,
                                              st.memmap, paths)
                   b == board(tr1, dq.eligible, st.memmap)
                   al2 == IF s.arrived THEN alight(b.train, b.memmap)
                          ELSE [train |-> b.train, alighting |-> <<>>,
                                memmap |-> b.memmap]
                   st3 == ReleaseAll([st EXCEPT !.memmap = al2.memmap],
                                     al2.alighting, 1)
               IN [train |-> al2.train, st |-> st3,
                   waiting |-> [wq EXCEPT ![sid] = dq.waiting],
                   alighted |-> al2.alighting, boarded |-> b.boarded,
                   log |-> << [candidates |-> dq.eligible, before |-> tr1,
                               after |-> b.train, boarded |-> b.boarded,
                               station |-> sid,
                               candidate_ids |->
                                 [k \in 1 .. Len(dq.eligible) |->
                                    st.memmap[dq.eligible[k]].id],
                               waiting_before |-> wq[sid],
                               waiting_after |-> dq.waiting,
                               path_ids |-> [k \in 1 .. Len(wq[sid]) |->
                                              st.memmap[wq[sid][k]].path_id]] >>]
          ELSE [train |-> tr2, st |-> st2, waiting |-> wq,
                alighted |-> al.alighting, boarded |-> <<>>, log |-> <<>>]

TrainBody_boards_at_reversal(tr0, st, wq) ==
  LET s == step(tr0, DT, current_time)
      tr1 == s.train
      quiet == [train |-> tr1, st |-> st, waiting |-> wq, alighted |-> <<>>,
                boarded |-> <<>>, log |-> <<>>]
  IN IF ~((s.arrived \/ tr1.dwell_remaining > 0) /\ tr1.current_station_id # 0)
     THEN quiet
     ELSE
       LET al == IF s.arrived THEN alight(tr1, st.memmap)
                 ELSE [train |-> tr1, alighting |-> <<>>, memmap |-> st.memmap]
           \* memmap[alighted]['tap_off_ts'] is not modelled (never read)
           st2 == ReleaseAll([st EXCEPT !.memmap = al.memmap], al.alighting, 1)
           tr2 == al.train
       IN IF s.arrived /\ tr2.timetable_idx >= Len(tr2.timetable) - 1
          THEN \* terminal: reverse, rebuild the timetable, dwell, continue
               LET r == reverse_direction(tr2)
                   line == LineOf(r.line_id)
                   r2 == [r EXCEPT !.timetable =
                                      build_timetable(line, current_time, r.direction),
                                   !.timetable_idx = 0,
                                   !.status = "in_service",
                                   !.dwell_remaining = DwellTime]
                   sid == r2.current_station_id
                   dq == IF sid \in Stations
                         THEN dequeue_for_boarding(wq[sid], sid, r2.line_id,
                                                   st2.memmap, paths)
                         ELSE [eligible |-> <<>>, waiting |-> <<>>]
                   b == board(r2, dq.eligible, st2.memmap)
               IN [train |-> b.train, st |-> st2,
                   waiting |-> IF sid \in Stations
                               THEN [wq EXCEPT ![sid] = dq.waiting] ELSE wq,
                   alighted |-> al.alighting,
                   boarded |-> b.boarded, log |-> <<>>]
          ELSE IF tr2.current_station_id \in Stations /\ tr2.dwell_remaining > 0
          THEN LET sid == tr2.current_station_id
                   dq == dequeue_for_boarding(wq[sid], sid, tr2.line_id,
                                              st2.memmap, paths)
                   b == board(tr2, dq.eligible, st2.memmap)
               IN [train |-> b.train, st |-> [st2 EXCEPT !.memmap = b.memmap],
                   waiting |-> [wq EXCEPT ![sid] = dq.waiting],
                   alighted |-> al.alighting, boarded |-> b.boarded,
                   log |-> << [candidates |-> dq.eligible, before |-> tr2,
                               after |-> b.train, boarded |-> b.boarded,
                               station |-> sid,
                               candidate_ids |->
                                 [k \in 1 .. Len(dq.eligible) |->
                                    st2.memmap[dq.eligible[k]].id],
                               waiting_before |-> wq[sid],
                               waiting_after |-> dq.waiting,
                               path_ids |-> [k \in 1 .. Len(wq[sid]) |->
                                              st2.memmap[wq[sid][k]].path_id]] >>]
          ELSE [train |-> tr2, st |-> st2, waiting |-> wq,
                alighted |-> al.alighting, boarded |-> <<>>, log |-> <<>>]

TrainBody(tr0, st, wq) ==
  LET s == step(tr0, DT, current_time)
      tr1 == s.train
      quiet == [train |-> tr1, st |-> st, waiting |-> wq, alighted |-> <<>>,
                boarded |-> <<>>, log |-> <<>>]
  IN IF ~((s.arrived \/ tr1.dwell_remaining > 0) /\ tr1.current_station_id # 0)
     THEN quiet
     ELSE
       LET al == IF s.arrived THEN alight(tr1, st.memmap)
                 ELSE [train |-> tr1, alighting |-> <<>>, memmap |-> st.memmap]
           \* memmap[alighted]['tap_off_ts'] is not modelled (never read)
           st2 == ReleaseAll([st EXCEPT !.memmap = al.memmap], al.alighting, 1)
           tr2 == al.train
       IN IF s.arrived /\ tr2.timetable_idx >= Len(tr2.timetable) - 1
          THEN \* terminal: reverse, rebuild the timetable, dwell, continue
               LET r == reverse_direction(tr2)
                   line == LineOf(r.line_id)
               IN [train |-> [r EXCEPT !.timetable =
                                          build_timetable(line, current_time, r.direction),
                                       !.timetable_idx = 0,
                                       !.status = "in_service",
                                       !.dwell_remaining = DwellTime],
                   st |-> st2, waiting |-> wq, alighted |-> al.alighting,
                   boarded |-> <<>>, log |-> <<>>]
          ELSE IF tr2.current_station_id \in Stations /\ tr2.dwell_remaining > 0
          THEN LET sid == tr2.current_station_id
                   dq == dequeue_for_boarding(wq[sid], sid, tr2.line_id,
                                              st2.memmap, paths)
                   b == board(tr2, dq.eligible, st2.memmap)
               IN [train |-> b.train, st |-> [st2 EXCEPT !.memmap = b.memmap],
                   waiting |-> [wq EXCEPT ![sid] = dq.waiting],
                   alighted |-> al.alighting, boarded |-> b.boarded,
                   log |-> << [candidates |-> dq.eligible, before |-> tr2,
                               after |-> b.train, boarded |-> b.boarded,
                               station |-> sid,
                               candidate_ids |->
                                 [k \in 1 .. Len(dq.eligible) |->
                                    st2.memmap[dq.eligible[k]].id],
                               waiting_before |-> wq[sid],
                               waiting_after |-> dq.waiting,
                               path_ids |-> [k \in 1 .. Len(wq[sid]) |->
                                              st2.memmap[wq[sid][k]].path_id]] >>]
          ELSE [train |-> tr2, st |-> st2, waiting |-> wq,
                alighted |-> al.alighting, boarded |-> <<>>, log |-> <<>>]

\* History of one train-loop body: the train before step, after step and
\* at the end of the body, the indices released with the destination
\* their rows held, and the destinations of those left on board by alight.
TrainLogEntry(tr0, mm, r) ==
  LET s == step(tr0, DT, current_time)
      kept == IF s.arrived THEN alight(s.train, mm).train.onboard_passengers
              ELSE s.train.onboard_passengers
      DestsOf(q) == [k \in 1 .. Len(q) |-> mm[q[k]].dest_station_id]
  IN [before |-> tr0, stepped |-> s.train, arrived |-> s.arrived,
      after |-> r.train, tick |-> current_tick, time |-> current_time,
      released |-> [k \in 1 .. Len(r.alighted) |->
                      [idx |-> r.alighted[k],
                       dest |-> mm[r.alighted[k]].dest_station_id]],
      kept_dests |-> [k \in 1 .. Len(kept) |-> mm[kept[k]].dest_station_id],
      kept |-> kept,
      onboard_dests |-> DestsOf(s.train.onboard_passengers),
      after_dests |-> DestsOf(r.train.onboard_passengers)]

\* History of a train after one body: the time of an arrival at the last
\* timetable entry is noted, the first as far and the second as back.
NoteArrival(h, e) ==
  IF e.arrived /\ e.stepped.timetable_idx >= Len(e.stepped.timetable) - 1
  THEN IF h.far = -1 THEN [h EXCEPT !.far = e.time]
       ELSE IF h.back = -1 THEN [h EXCEPT !.back = e.time]
       ELSE h
  ELSE h

\* The ids of the candidates of a board call beyond those it returned.
LeftBy(e) ==
  Range(SubSeq(e.candidate_ids, Len(e.boarded) + 1, Len(e.candidates)))

UpdateTrain ==
  /\ pc = "trains"
  /\ ti <= Len(active_trains)
  /\ LET r == TrainBody(active_trains[ti], Store, waiting)
         e == TrainLogEntry(active_trains[ti], memmap, r)
     IN
     /\ active_trains' = [active_trains EXCEPT ![ti] = r.train]
     /\ SetStore(r.st)
     /\ waiting' = r.waiting
     /\ alighting_count' = alighting_count + Len(r.alighted)
     /\ boarding_count' = boarding_count + Len(r.boarded)
     /\ allocated' = allocated \ Range(r.alighted)
     /\ board_log' = board_log \o r.log
     /\ left_behind' = left_behind \cup UNION {LeftBy(c) : c \in Range(r.log)}
     /\ train_log' = Append(train_log, e)
     /\ train_hist' = [train_hist EXCEPT ![ti] = NoteArrival(@, e)]
  /\ ti' = ti + 1
  /\ UNCHANGED <<current_tick, current_time, paths, tgen, pc, gi,
                 new_passenger_indices, created_ids, call, makes_hist,
                 plan_log,
                 route_log, line_obj, metrics_history, flush_count,
                 map_vars>>

\* memmap[arr][field] += value with arr an ndarray: the sum is stored into
\* the copy made by memmap[arr].
AddFieldByArray(mm, arr, field, value) == mm

\* collect_metrics: SimulationMetrics(tick=self.current_tick, ...); the
\* other fields are counts read from the state and are not kept.
collect_metrics_before_tick == [tick |-> current_tick - 1]

collect_metrics == [tick |-> current_tick]

\* Phases 5 to 8: wait accumulator, metrics (appended to metrics_history),
\* snapshot and events (the last two read the state only).
EndTick ==
  /\ pc = "trains"
  /\ ti > Len(active_trains)
  /\ LET waiting_indices ==
           SortedList({i \in Idx : memmap[i].state = WAITING /\ memmap[i].id > 0})
     IN memmap' = IF Len(waiting_indices) > 0
                  THEN AddFieldByArray(memmap, waiting_indices,
                                       "total_wait_time", DT)
                  ELSE memmap
  /\ metrics_history' = Append(metrics_history, collect_metrics)
  /\ pc' = "idle"
  /\ UNCHANGED <<free_indices, next_id, current_tick, current_time, waiting,
                 paths, tgen, active_trains, gi, ti, new_passenger_indices,
                 boarding_count, alighting_count, allocated, created_ids,
                 call, board_log, train_log, makes_hist, train_hist,
                 plan_log, route_log, line_obj, flush_count,
                 left_behind, map_vars>>

\* run: after "for _ in range(n_ticks): self.step()" the store is flushed
\* (the log lines of run read the state only).
FinishRun ==
  /\ pc = "idle"
  /\ current_tick = MaxTicks
  /\ flush_count' = flush_count + 1
  /\ pc' = "done"
  /\ UNCHANGED <<memmap, free_indices, next_id, current_tick, current_time,
                 waiting, paths, tgen, active_trains, gi, ti,
                 new_passenger_indices, boarding_count, alighting_count,
                 allocated, created_ids, call, board_log, train_log,
                 makes_hist, train_hist, plan_log, route_log, line_obj,
                 metrics_history, left_behind, map_vars>>

Next ==
  \/ BeginTick \/ Generate \/ AssignPaths \/ Dispatch \/ UpdateTrain
  \/ EndTick \/ FinishRun
Spec == Init /\ [][Next]_vars


\* ------------------------------------------------------ the station ids
\* The id mapping of a Map driven directly by add_station and add_line
\* calls.  A dict is a function on its keys.  add_station is given the
\* string id of the station (station.station_id_str); add_line is given
\* line.station_list_original, whose entries are integers or strings: entry
\* k is the integer ints[k] where is_int[k], else the string strs[k].  Only
\* the part of the two methods that reads or writes the mapping is
\* followed; the lines and the graph are followed in SpecLine and SpecRoute.
MaxLineIds == 2

StationStrs == {"A", "B", "1", "2"}
LineInts == {1, 2}

\* str(station_id) for the integers a line may list
Str(i) == CASE i = 1 -> "1" [] i = 2 -> "2" [] i = 3 -> "3" [] OTHER -> "?"

\* d[k] = v
Put(d, k, v) == [x \in DOMAIN d \cup {k} |-> IF x = k THEN v ELSE d[x]]

MapIds == [str_to_int |-> str_to_int, int_to_str |-> int_to_str,
           next_station_id |-> next_station_id]

register_station_id(m, str_id) ==
  IF str_id \in DOMAIN m.str_to_int
  THEN [m |-> m, int_id |-> m.str_to_int[str_id]]
  ELSE LET int_id == m.next_station_id IN
       [m |-> [str_to_int |-> Put(m.str_to_int, str_id, int_id),
               int_to_str |-> Put(m.int_to_str, int_id, str_id),
               next_station_id |-> int_id + 1],
        int_id |-> int_id]

\* The loop of add_line over station_list_original[k ..]: an integer that
\* is not a key of int_to_str is registered under str(integer); a string
\* goes through get_int_id, which raises ValueError when it is not
\* registered (the registrations made so far stay).
RECURSIVE RegisterLineIds(_, _, _, _, _)
RegisterLineIds(m, is_int, ints, strs, k) ==
  IF k > Len(is_int) THEN [m |-> m, raised |-> FALSE]
  ELSE IF is_int[k]
  THEN LET station_id == ints[k]
           m2 == IF station_id \notin DOMAIN m.int_to_str
                 THEN [m EXCEPT
                         !.str_to_int = Put(@, Str(station_id), station_id),
                         !.int_to_str = Put(@, station_id, Str(station_id))]
                 ELSE m
       IN RegisterLineIds(m2, is_int, ints, strs, k + 1)
  ELSE IF strs[k] \notin DOMAIN m.str_to_int
  THEN [m |-> m, raised |-> TRUE]
  ELSE RegisterLineIds(m, is_int, ints, strs, k + 1)

SetMapIds(m) ==
  /\ str_to_int' = m.str_to_int
  /\ int_to_str' = m.int_to_str
  /\ next_station_id' = m.next_station_id

\* add_station(station) with station.station_id_str = str_id
MapAddStation ==
  /\ \E str_id \in StationStrs :
       LET r == register_station_id(MapIds, str_id) IN
       /\ SetMapIds(r.m)
       /\ map_call' = [op |-> "add_station", str_id |-> str_id,
                       result |-> r.int_id, raised |-> FALSE,
                       first |-> IF str_id \in DOMAIN map_call.first
                                 THEN map_call.first
                                 ELSE Put(map_call.first, str_id, r.int_id)]
  /\ UNCHANGED <<store_vars, allocated, created_ids, call, current_tick,
                 current_time, waiting, paths, tgen, active_trains, pc, gi,
                 ti, new_passenger_indices, boarding_count, alighting_count,
                 board_log, train_log, makes_hist, train_hist, plan_log,
                 route_log, line_obj, metrics_history, flush_count,
                 left_behind>>

\* add_line(line) with line.station_list_original given by the three lists
MapAddLine ==
  /\ \E n \in 1 .. MaxLineIds :
       \E is_int \in [1 .. n -> BOOLEAN], ints \in [1 .. n -> LineInts],
          strs \in [1 .. n -> StationStrs] :
         LET r == RegisterLineIds(MapIds, is_int, ints, strs, 1) IN
         /\ SetMapIds(r.m)
         /\ map_call' = [op |-> "add_line", str_id |-> "", result |-> 0,
                         raised |-> r.raised, first |-> map_call.first]
  /\ UNCHANGED <<store_vars, allocated, created_ids, call, current_tick,
                 current_time, waiting, paths, tgen, active_trains, pc, gi,
                 ti, new_passenger_indices, boarding_count, alighting_count,
                 board_log, train_log, makes_hist, train_hist, plan_log,
                 route_log, line_obj, metrics_history, flush_count,
                 left_behind>>

NextMap == MapAddStation \/ MapAddLine
SpecMap == Init /\ [][NextMap]_vars

\* ------------------------------------------------- rides without a last tick
\* step called over and over ("for _ in range(n_ticks)" with no bound on
\* n_ticks), on a map in which stop 7 is a registered station as well, so
\* that a generator can draw it as a destination and the planned path
\* 1 -> 2 on T1, 2 -> 7 on T2 uses two lines.  Nobody is enqueued at stop 7
\* (it has no generator), so the boarding call of the T2 train there finds
\* an empty waiting set and is not modelled.
\*
\* After the first tick the fleets are complete and the generators make no
\* train any more; from then on only differences between the clock and the
\* timetable entries matter (step compares them, build_timetable starts from
\* the clock).  The passing of dt is therefore modelled by moving every
\* timetable entry dt earlier and keeping the clock, which keeps the set of
\* states finite; an entry that is already passed stays passed and is held
\* at StartTime.
MaxRiders == 3

RideStations == Stations \cup {7}

RideDestinations(station_id) == RideStations \ {station_id}

LetTimePass(tr) ==
  [tr EXCEPT !.timetable =
     [k \in 1 .. Len(tr.timetable) |->
        <<Max(tr.timetable[k][1] - DT, StartTime), tr.timetable[k][2]>>]]

\* step, tick 2 and later: current_time += dt, seen from the trains.
RideBeginTick ==
  /\ pc = "idle"
  /\ current_tick = 1
  /\ active_trains' = [t \in 1 .. Len(active_trains) |->
                         LetTimePass(active_trains[t])]
  /\ new_passenger_indices' = <<>>
  /\ boarding_count' = 0
  /\ alighting_count' = 0
  /\ board_log' = <<>>
  /\ train_log' = <<>>
  /\ gi' = 1
  /\ pc' = "generate"
  /\ UNCHANGED <<memmap, free_indices, next_id, current_tick, current_time,
                 waiting, paths, tgen, ti, allocated, created_ids, call,
                 makes_hist, train_hist, plan_log,
                 route_log, line_obj, metrics_history, flush_count,
                 left_behind, map_vars>>

\* Phase 1, one generator, with the destinations of the larger map; no more
\* passengers are created once MaxRiders ids are used.
RideGenerate ==
  /\ pc = "generate"
  /\ LET station_id == Generators[gi]
         destinations == RideDestinations(station_id)
         more == gi < Len(Generators)
     IN \E n \in 0 .. 1 :
          /\ n > 0 => next_id <= MaxRiders
          /\ \E dest_ids \in [1 .. n -> destinations] :
               LET g == generate_customers(Store, station_id, dest_ids) IN
               /\ SetStore(g.st)
               /\ allocated' = allocated \cup Range(g.indices)
               /\ new_passenger_indices' = new_passenger_indices \o g.indices
               /\ pc' = IF ~g.ok THEN "crashed"
                        ELSE IF more THEN "generate" ELSE "assign"
               /\ gi' = IF g.ok /\ more THEN gi + 1 ELSE gi
  /\ UNCHANGED <<current_tick, current_time, waiting, paths, tgen,
                 active_trains, ti, boarding_count, alighting_count,
                 created_ids, call, board_log, train_log, makes_hist,
                 train_hist, plan_log,
                 route_log, line_obj, metrics_history, flush_count,
                 left_behind, map_vars>>

\* Phase 5 without the metrics record (metrics_history is not followed here).
RideEndTick ==
  /\ pc = "trains"
  /\ ti > Len(active_trains)
  /\ LET waiting_indices ==
           SortedList({i \in Idx : memmap[i].state = WAITING /\ memmap[i].id > 0})
     IN memmap' = IF Len(waiting_indices) > 0
                  THEN AddFieldByArray(memmap, waiting_indices,
                                       "total_wait_time", DT)
                  ELSE memmap
  /\ pc' = "idle"
  /\ UNCHANGED <<free_indices, next_id, current_tick, current_time, waiting,
                 paths, tgen, active_trains, gi, ti, new_passenger_indices,
                 boarding_count, alighting_count, allocated, created_ids,
                 call, board_log, train_log, makes_hist, train_hist,
                 plan_log, route_log, line_obj, metrics_history, flush_count,
                 left_behind, map_vars>>

FirstTick == current_tick = 0 /\ BeginTick

NextRide ==
  \/ FirstTick \/ RideBeginTick \/ RideGenerate \/ AssignPaths \/ Dispatch
  \/ UpdateTrain \/ RideEndTick

\* A raised CapacityExceeded or NodeNotFound ends the run.
RunAborted == pc \in {"crashed", "node_not_found"}

\* Where step stands: the phase, the generator and the train it is at.
Position == <<pc, gi, ti>>

\* Every step of NextRide moves the position (to the next phase, generator
\* or train), and it can be taken in every state of a run that was not
\* aborted, so "a step of NextRide" and "a move of the position in a run
\* that is not aborted" are the same steps.  The fairness condition is
\* written on the second form, whose enabling condition is ~RunAborted.
StepGoesOn ==
  /\ ~RunAborted
  /\ pc' \in {"idle", "generate", "assign", "dispatch", "trains", "crashed",
              "node_not_found"}
  /\ gi' \in {gi, gi + 1, 1}
  /\ ti' \in {ti, ti + 1, 1}

\* run keeps calling step and step runs to its end unless it raises: a
\* tick that can go on does go on.
SpecRide == Init /\ [][NextRide]_vars /\ WF_Position(StepGoesOn)

\* ------------------------------------------------------------ the claims
\* Number of places, over all waiting sets, that hold index i.
WaitingPlaces(i) ==
  {p \in UNION {{s} \X (1 .. Len(waiting[s])) : s \in Stations} :
     waiting[p[1]][p[2]] = i}

BoardCalls == Range(board_log)

\* C1: allocate never hands out an index that is currently allocated, and
\* the indices returned by one allocate(n) call are pairwise distinct.
C1_AllocateReturnsFreeDistinct ==
  (call.op = "alloc" /\ ~call.failed) =>
     /\ NoDup(call.result)
     /\ Range(call.result) \cap call.allocated_before = {}

\* C2: at the end of every tick every live WAITING row is in exactly one
\* station's waiting set, exactly once.
C2_WaitingRowQueuedOnce ==
  pc = "idle" =>
    \A i \in Idx :
      (memmap[i].id > 0 /\ memmap[i].state = WAITING) =>
         Cardinality(WaitingPlaces(i)) = 1

\* C4: for every train the occupancy counter equals the length of the
\* onboard list and is at most max_capacity.
C4_OccupancyWithinCapacity ==
  \A k \in 1 .. Len(active_trains) :
    /\ active_trains[k].current_capacity = Len(active_trains[k].onboard_passengers)
    /\ active_trains[k].current_capacity <= active_trains[k].max_capacity

\* A train that is full after a board call that had to leave candidates out.
C4_Witness ==
  \E e \in BoardCalls :
    /\ Len(e.candidates) > Len(e.boarded)
    /\ Len(e.boarded) > 0
    /\ \E k \in 1 .. Len(active_trains) :
         /\ active_trains[k].id = e.before.id
         /\ active_trains[k].current_capacity = active_trains[k].max_capacity

\* C5: at the end of every tick no index on the free stack has id > 0, and
\* free-stack entries plus live rows number at most the capacity.
C5_FreeStackDisjointFromLive ==
  pc = "idle" =>
    /\ \A k \in 1 .. Len(free_indices) : memmap[free_indices[k]].id = 0
    /\ Len(free_indices) + Cardinality({i \in Idx : memmap[i].id > 0}) <= Capacity

C7_LifoReuse ==
  (call.op = "alloc" /\ call.expect # -1) =>
     (~call.failed /\ call.result = <<call.expect>>)

\* Two single allocations in a row served from one run of releases.
C7_Witness ==
  call.op = "alloc" /\ call.served >= 2 /\ call.result = <<call.expect>>

\* C8: allocate(n) fails whenever fewer than n slots are free, and a
\* successful allocate returns indices of 0 .. capacity-1 only.
C8_AllocateFailsWhenShort ==
  call.op = "alloc" =>
    /\ (call.n > Capacity - Cardinality(call.allocated_before)) => call.failed
    /\ ~call.failed => Range(call.result) \subseteq Idx

\* C9: board returns the first min(len(candidates), max_capacity -
\* occupancy) candidates in order and appends exactly those to the onboard
\* list; on a full train it returns nothing and leaves the train unchanged.
C9_BoardTakesPrefix ==
  \A e \in BoardCalls :
    LET room == e.before.max_capacity - e.before.current_capacity
        k == Max(0, Min(Len(e.candidates), room))
    IN /\ e.boarded = SubSeq(e.candidates, 1, k)
       /\ e.after.onboard_passengers = e.before.onboard_passengers \o e.boarded
       /\ room = 0 => (e.boarded = <<>> /\ e.after = e.before)

\* A train that earlier boarding has filled is presented candidates and
\* takes none.
C9_Witness ==
  \E e \in BoardCalls :
    /\ e.before.current_capacity = e.before.max_capacity
    /\ e.candidates # <<>>
    /\ e.boarded = <<>>

\* C10: at the end of a tick the store row of every index boarded in the
\* tick has state ONBOARD and on_train_id equal to the boarding train's id.
C10_BoardedRowsMarkedOnboard ==
  pc = "idle" =>
    \A e \in BoardCalls :
      \A idx \in Range(e.boarded) :
        /\ memmap[idx].state = ONBOARD
        /\ memmap[idx].on_train_id = e.before.id

TrainBodies == Range(train_log)

\* C11: at the end of every tick no live row has state ARRIVED; every
\* index released in the tick was released by a train that arrived in the
\* tick at the station its row held as destination, and its row is free;
\* and an arriving train keeps nobody whose destination is that station.
C11_ReleasedAtDestinationOnArrival ==
  pc = "idle" =>
    /\ \A i \in Idx : memmap[i].id > 0 => memmap[i].state # ARRIVED
    /\ \A e \in TrainBodies :
         /\ e.released # <<>> => e.arrived
         /\ \A k \in 1 .. Len(e.released) :
              /\ e.released[k].dest = e.stepped.current_station_id
              /\ memmap[e.released[k].idx].id = 0
         /\ e.arrived =>
              \A k \in 1 .. Len(e.kept_dests) :
                e.kept_dests[k] # e.stepped.current_station_id

\* A tick ends in which an arriving train released one passenger and kept
\* another on board.
C11_Witness ==
  /\ pc = "idle"
  /\ \E e \in TrainBodies :
       e.arrived /\ e.released # <<>> /\ e.kept_dests # <<>>

\* C12: the wait-accumulator phase of every tick adds dt to the stored
\* total_wait_time of each live WAITING row and changes no other row's.
C12_WaitingRowsGainDt ==
  [][(pc = "trains" /\ pc' = "idle") =>
       \A i \in Idx :
         memmap'[i].total_wait_time =
           IF memmap[i].id > 0 /\ memmap[i].state = WAITING
           THEN memmap[i].total_wait_time + DT
           ELSE memmap[i].total_wait_time]_vars

MakeNos == 1 .. Len(makes_hist)
TimeOfDay(t) == t % DaySeconds
InService(line, t) ==
  /\ TimeOfDay(t) >= line.service_start * HourSeconds
  /\ TimeOfDay(t) < line.service_end * HourSeconds

\* C13: two make events of one line in one direction are at least headway
\* seconds apart; and once a generator with room for both directions
\* (fleet_size >= 2) has emitted its first make at time f, each direction
\* has exactly one make with a time in [f, f + headway).
C13_MakesHeadwayApart ==
  /\ \A i, j \in MakeNos :
       (/\ i < j
        /\ makes_hist[i].line = makes_hist[j].line
        /\ makes_hist[i].direction = makes_hist[j].direction)
       => makes_hist[j].depart_time - makes_hist[i].depart_time
            >= Lines[makes_hist[i].line].headway
  /\ \A l \in LineNo :
       LET mine == {i \in MakeNos : makes_hist[i].line = l} IN
       (Lines[l].fleet_size >= 2 /\ mine # {}) =>
          LET f == makes_hist[CHOOSE i \in mine : \A k \in mine : i <= k].depart_time
          IN \A d \in {1, -1} :
               Cardinality({i \in mine :
                              /\ makes_hist[i].direction = d
                              /\ makes_hist[i].depart_time < f + Lines[l].headway}) = 1

\* On a line with room for both directions a second make has followed
\* the first in one direction.
C13_Witness ==
  \E i, j \in MakeNos :
    /\ i < j
    /\ makes_hist[i].line = makes_hist[j].line
    /\ makes_hist[i].direction = makes_hist[j].direction
    /\ Lines[makes_hist[i].line].fleet_size >= 2

\* C14: a generator never has more active train ids than its fleet_size,
\* every make event was emitted by a generator that was not saturated,
\* and the loop's train list holds at most fleet_size trains of each line.
C14_FleetNeverExceeded ==
  /\ \A l \in LineNo :
       /\ Cardinality(tgen[l].active_trains) <= Lines[l].fleet_size
       /\ Cardinality({k \in 1 .. Len(active_trains) :
                         active_trains[k].line_id = Lines[l].line_id})
            <= Lines[l].fleet_size
  /\ \A i \in MakeNos :
       makes_hist[i].active_before < Lines[makes_hist[i].line].fleet_size

\* A dispatch phase has just run in which every generator was saturated
\* and the headway had passed in both directions; every line has its full
\* fleet in the loop's list and no make was emitted.
C14_Witness ==
  /\ pc = "trains"
  /\ \A l \in LineNo :
       /\ Cardinality(tgen[l].active_trains) = Lines[l].fleet_size
       /\ InService(Lines[l], current_time)
       /\ \A d \in {1, -1} :
            /\ tgen[l].last_departure_time[d] # current_time
            /\ current_time - tgen[l].last_departure_time[d] >= Lines[l].headway
       /\ Cardinality({k \in 1 .. Len(active_trains) :
                         active_trains[k].line_id = Lines[l].line_id})
            = Lines[l].fleet_size
  /\ \A i \in MakeNos : makes_hist[i].depart_time < current_time

\* C15: no make event carries a time outside the line's service hours;
\* and a tick call at the very start of service on a generator that has
\* emitted nothing before emits the train of direction +1.
C15_NoMakeOutsideServiceHours ==
  /\ \A i \in MakeNos :
       InService(Lines[makes_hist[i].line], makes_hist[i].depart_time)
  /\ \A l \in LineNo :
       (/\ current_tick > 0
        /\ TimeOfDay(current_time) = Lines[l].service_start * HourSeconds
        /\ Lines[l].fleet_size >= 1
        /\ \A i \in MakeNos :
             makes_hist[i].line = l => makes_hist[i].depart_time >= current_time)
       => \E i \in MakeNos :
            /\ makes_hist[i].line = l
            /\ makes_hist[i].direction = 1
            /\ makes_hist[i].depart_time = current_time

\* tick has been called before service and now at its very start, where
\* the first make of direction +1 is emitted.
C15_Witness ==
  /\ current_tick >= 2
  /\ TimeOfDay(current_time) = Lines[1].service_start * HourSeconds
  /\ makes_hist # <<>>
  /\ makes_hist[1].direction = 1
  /\ makes_hist[1].depart_time = current_time

\* The stations of a timetable, in order.
StationsOf(timetable) == [i \in 1 .. Len(timetable) |-> timetable[i][2]]

\* A body in which step reported the arrival at the last timetable entry.
TerminalArrival(e) ==
  e.arrived /\ e.stepped.timetable_idx >= Len(e.stepped.timetable) - 1

\* C16: a body whose step reports arrival at the last timetable entry
\* ends with the direction negated, the line's timetable for the new
\* direction starting at (current time, this terminal), timetable_idx 0,
\* status in_service and 30 s of dwell, the new timetable visiting the
\* stations in the opposite order; every arrival is at the next timetable
\* entry; no train is ever removed, and no train is at its last timetable
\* entry at the end of a tick.
C16_TerminalReversal ==
  /\ \A e \in TrainBodies :
       /\ TerminalArrival(e) =>
            /\ e.after.direction = -1 * e.before.direction
            /\ e.after.timetable =
                 build_timetable(LineOf(e.before.line_id), e.time, e.after.direction)
            /\ e.after.timetable[1] = <<e.time, e.stepped.current_station_id>>
            /\ e.after.current_station_id = e.stepped.current_station_id
            /\ e.after.timetable_idx = 0
            /\ e.after.status = "in_service"
            /\ e.after.dwell_remaining = DwellTime
            /\ StationsOf(e.after.timetable) = Reverse(StationsOf(e.before.timetable))
       /\ e.arrived =>
            /\ e.stepped.timetable_idx = e.before.timetable_idx + 1
            /\ e.stepped.current_station_id =
                 e.before.timetable[e.before.timetable_idx + 2][2]
  /\ Len(active_trains) = Len(train_hist)
  /\ \A k \in 1 .. Len(active_trains) :
       /\ active_trains[k].id = train_hist[k].train_id
       /\ pc = "idle" =>
            active_trains[k].timetable_idx < Len(active_trains[k].timetable) - 1

\* A train that reversed at its far terminal in an earlier tick arrives at
\* the next station of its way back.
C16_Witness ==
  \E k \in 1 .. Len(train_hist) :
    \E e \in TrainBodies :
      /\ e.before.id = train_hist[k].train_id
      /\ train_hist[k].far # -1
      /\ train_hist[k].far < e.time
      /\ e.arrived
      /\ ~TerminalArrival(e)

\* F: the travel times of a line's segments, added up.
ForwardRun(line) == SumSeq(line.time_between_stations)

\* C17: every arrival happens at or after the time the timetable gives
\* for the entry arrived at, and a train dispatched at T0 first arrives at
\* a last timetable entry (the far terminal) at T0 + F or later.
C17_NoEarlyArrival ==
  /\ \A e \in TrainBodies :
       e.arrived =>
         e.time >= e.before.timetable[e.stepped.timetable_idx + 1][1]
  /\ \A k \in 1 .. Len(train_hist) :
       train_hist[k].far # -1 =>
         train_hist[k].far >=
           train_hist[k].dispatched_at + ForwardRun(LineOf(active_trains[k].line_id))

\* A train of the three-station line has arrived at its far terminal.
C17_Witness ==
  \E k \in 1 .. Len(train_hist) :
    /\ train_hist[k].far # -1
    /\ Len(active_trains[k].timetable) = 3

\* C18: a train dispatched at T0 that has reversed at the far terminal
\* arrives back at its starting station at T0 + 2F + dwells or later,
\* dwells being at least the 30 s dwell at the far terminal.
C18_RoundTripIncludesDwell ==
  \A k \in 1 .. Len(train_hist) :
    train_hist[k].back # -1 =>
      train_hist[k].back >=
        train_hist[k].dispatched_at
          + 2 * ForwardRun(LineOf(active_trains[k].line_id)) + DwellTime

\* The train-loop bodies of the current tick run on the train of history
\* entry k.
BodiesOf(k) == {e \in TrainBodies : e.before.id = train_hist[k].train_id}

\* C19 as stated: no train-loop body (and so no call of step) of a tick
\* is run on a train that the dispatch phase of the same tick created.
C19_NewTrainNotStepped ==
  \A k \in 1 .. Len(train_hist) :
    \A e \in BodiesOf(k) : train_hist[k].dispatched_at # e.time

\* C19, amended: a train created by the dispatch phase of tick T is
\* stepped once in tick T, and that step reports no arrival and leaves
\* the train as it was created (no dwell, no boarding, no alighting).
C19_NewTrainSteppedIdle ==
  \A k \in 1 .. Len(train_hist) :
    (pc = "idle" /\ train_hist[k].dispatched_at = current_time) =>
       /\ Cardinality(BodiesOf(k)) = 1
       /\ \A e \in BodiesOf(k) :
            /\ ~e.arrived
            /\ e.stepped = e.before
            /\ e.after = e.before
            /\ e.before.timetable_idx = 0
            /\ e.before.timetable[1][1] = current_time

\* The end of a tick whose dispatch phase created a train.
C19_Witness ==
  /\ pc = "idle"
  /\ \E k \in 1 .. Len(train_hist) :
       /\ train_hist[k].dispatched_at = current_time
       /\ BodiesOf(k) # {}

PlanNos == 1 .. Len(plan_log)

\* The number of different segment lists among the first i plan calls.
DistinctPlanned(i) == Cardinality({plan_log[k].segments : k \in 1 .. i})

\* C20: plan calls with equal segment lists return equal ids and calls
\* with different segment lists return different ids; the ids are 1, 2,
\* 3, ... in order of first appearance; and expand of a returned id, at
\* the call and at any time after it, is the list planned.
C20_PlanDeduplicates ==
  /\ \A i, j \in PlanNos :
       (plan_log[i].segments = plan_log[j].segments)
         <=> (plan_log[i].path_id = plan_log[j].path_id)
  /\ \A i \in PlanNos :
       /\ plan_log[i].path_id >= 1
       /\ plan_log[i].path_id <= DistinctPlanned(i)
       /\ (\A k \in 1 .. i - 1 : plan_log[k].segments # plan_log[i].segments)
            => plan_log[i].path_id = DistinctPlanned(i)
       /\ plan_log[i].path_id \in 1 .. Len(paths)
       /\ plan_log[i].expanded = plan_log[i].segments
       /\ expand(paths, plan_log[i].path_id) = plan_log[i].segments

\* A list was planned, then another one, then the first again.
C20_Witness ==
  /\ Len(plan_log) >= 3
  /\ plan_log[1].segments = plan_log[3].segments
  /\ plan_log[1].segments # plan_log[2].segments
  /\ Len(plan_log[1].segments) = 2

\* C21: at the end of every tick every live row with path_id # 0 has
\* expand(path_id) defined with at least one segment, and the first
\* segment's from_station is the row's origin.
C21_PathStartsAtOrigin ==
  pc = "idle" =>
    \A i \in Idx :
      (memmap[i].id > 0 /\ memmap[i].path_id # 0) =>
         /\ memmap[i].path_id \in 1 .. Len(paths)
         /\ Len(expand(paths, memmap[i].path_id)) >= 1
         /\ expand(paths, memmap[i].path_id)[1][2] = memmap[i].origin_station_id

\* The end of a tick with a live row whose path has two segments and a
\* live row whose path has one.
C21_Witness ==
  /\ pc = "idle"
  /\ \E i, j \in Idx :
       /\ memmap[i].id > 0 /\ memmap[i].path_id # 0
       /\ Len(expand(paths, memmap[i].path_id)) = 2
       /\ memmap[j].id > 0 /\ memmap[j].path_id # 0
       /\ Len(expand(paths, memmap[j].path_id)) = 1

\* The stations that a walk along edges of the graph reaches from those in S.
RECURSIVE ReachableFrom(_)
ReachableFrom(S) ==
  LET T == S \cup {e.v : e \in {f \in GraphEdges : f.u \in S}}
                \cup {e.u : e \in {f \in GraphEdges : f.v \in S}}
  IN IF T = S THEN S ELSE ReachableFrom(T)

RouteCalls == Range(route_log)

\* C22: for every pair of registered stations that no route connects,
\* a station that no line serves included, find_path returns path_id 0
\* without raising and without adding a Path Table entry.
C22_UnreachableReturnsZero ==
  \A e \in RouteCalls :
    (e.origin # e.dest /\ e.dest \notin ReachableFrom({e.origin})) =>
       /\ ~e.raised
       /\ e.path_id = 0
       /\ e.paths_after = e.paths_before

\* The codes of the lines in the order of Python's string comparison.
CodeOrder == <<"A1", "B1", "T1", "T2">>
CodeRank(code) == CHOOSE k \in 1 .. Len(CodeOrder) : CodeOrder[k] = code

\* The line code that sorts first among the lines joining a and b.
FirstSortedLine(a, b) ==
  CHOOSE c \in {e.line : e \in EdgesBetween(a, b)} :
    \A e \in EdgesBetween(a, b) : CodeRank(c) <= CodeRank(e.line)

\* C24: every segment of a path that find_path returns is labelled with
\* the line code that sorts first among the lines joining its two
\* stations.
C24_SegmentLabelSortsFirst ==
  \A e \in RouteCalls :
    (~e.raised /\ e.path_id # 0) =>
       LET segments == expand(e.paths_after, e.path_id) IN
       \A k \in 1 .. Len(segments) :
          segments[k][1] = FirstSortedLine(segments[k][2], segments[k][3])

\* C23: a passenger whose path_id is 0 is never returned by
\* dequeue_for_boarding and never boards: once queued it is, in that and
\* every later tick, in its origin station's waiting set in state WAITING
\* and on no train.
C23_NoPathNeverBoards ==
  pc \in {"dispatch", "trains", "idle"} =>
    \A i \in Idx :
      (memmap[i].id > 0 /\ memmap[i].path_id = 0) =>
         /\ memmap[i].state = WAITING
         /\ i \in Range(waiting[memmap[i].origin_station_id])
         /\ \A e \in BoardCalls : i \notin Range(e.candidates)
         /\ \A k \in 1 .. Len(active_trains) :
              i \notin Range(active_trains[k].onboard_passengers)

\* The end of a tick in which a train at the station of a queued passenger
\* without a path boarded a passenger created after that one.
C23_Witness ==
  /\ pc = "idle"
  /\ \E i \in Idx :
       /\ memmap[i].id > 0 /\ memmap[i].path_id = 0
       /\ \E e \in BoardCalls :
            /\ e.before.current_station_id = memmap[i].origin_station_id
            /\ \E k \in 1 .. Len(e.boarded) :
                 memmap[e.boarded[k]].id > memmap[i].id

\* C25: every passenger record the loop has created (a live row that
\* generate_customers has written: its origin is a station) has a
\* destination other than its origin, and the candidate destinations of a
\* generator never contain the generator's own station.
C25_DestinationIsNotOrigin ==
  /\ \A i \in Idx :
       (memmap[i].id > 0 /\ memmap[i].origin_station_id # 0) =>
         memmap[i].dest_station_id # memmap[i].origin_station_id
  /\ \A g \in 1 .. Len(Generators) :
       Generators[g] \notin Destinations(Generators[g])

\* Records of both generators are live, one of them created in this tick,
\* after the first.
C25_Witness ==
  /\ current_tick > 1
  /\ pc = "assign"
  /\ new_passenger_indices # <<>>
  /\ \A g \in 1 .. Len(Generators) :
       \E i \in Idx : memmap[i].id > 0
                      /\ memmap[i].origin_station_id = Generators[g]

\* run has returned or an exception has left it.
RunOver == pc \in {"done", "crashed", "node_not_found"}

\* The metrics records of ticks 1 .. n, in order.
MetricsOfTicks(n) == [k \in 1 .. n |-> [tick |-> k]]

\* C26 as stated: whenever run(n) is over, n ticks have been performed,
\* current_time has grown by n * dt, the n metrics records of ticks 1 .. n
\* have been appended in order and the store has been flushed once.
C26_RunPerformsAllTicks ==
  RunOver =>
    /\ current_tick = MaxTicks
    /\ current_time = StartTime + MaxTicks * DT
    /\ metrics_history = MetricsOfTicks(MaxTicks)
    /\ flush_count = 1

\* A run that returned has done all of that; a run that an exception left
\* in tick k has the records of ticks 1 .. k - 1 and has not flushed; and
\* the store is not flushed while ticks are under way.
RunRecord ==
  /\ current_time = StartTime + current_tick * DT
  /\ pc = "done" =>
       /\ current_tick = MaxTicks
       /\ metrics_history = MetricsOfTicks(MaxTicks)
       /\ flush_count = 1
  /\ pc \in {"crashed", "node_not_found"} =>
       /\ current_tick \in 1 .. MaxTicks
       /\ metrics_history = MetricsOfTicks(current_tick - 1)
       /\ flush_count = 0
  /\ ~RunOver =>
       /\ flush_count = 0
       /\ metrics_history =
            MetricsOfTicks(IF pc = "idle" THEN current_tick ELSE current_tick - 1)

\* An upper bound on the steps that run has still to take: the phases left
\* in the tick under way, and PhaseSpan for every tick to come.
FleetTotal == SumSeq([l \in LineNo |-> Lines[l].fleet_size])
PhaseSpan == Len(Generators) + FleetTotal + 5
PhasesLeft ==
  CASE pc = "generate" -> PhaseSpan - gi
    [] pc = "assign" -> PhaseSpan - Len(Generators) - 1
    [] pc = "dispatch" -> PhaseSpan - Len(Generators) - 2
    [] pc = "trains" -> PhaseSpan - Len(Generators) - 2 - ti
    [] OTHER -> 1
StepsLeft ==
  IF RunOver THEN 0 ELSE (MaxTicks - current_tick) * PhaseSpan + PhasesLeft

\* C26 (amended): run(n) terminates; if no tick raises it performs exactly
\* n ticks, current_time grows by n * dt, the records of ticks 1 .. n are
\* appended in order and the store is flushed once, after the last tick;
\* if tick k raises, run ends there with the records of ticks 1 .. k - 1
\* and without a flush.
C26_RunCompletesOrAborts ==
  /\ []RunRecord
  /\ [][StepsLeft >= 0 /\ StepsLeft' < StepsLeft]_vars

\* run(n) has returned after n ticks.
C26_Witness ==
  /\ pc = "done"
  /\ current_tick = MaxTicks
  /\ Len(metrics_history) = MaxTicks
  /\ flush_count = 1

\* C27: a Line whose list of travel times does not have exactly
\* (number of stations - 1) entries is never constructed (and so no
\* timetable is built from such lists).
C27_MismatchFailsAtConstruction ==
  line_obj.stage # "none" =>
    Len(line_obj.line.time_between_stations)
      = Len(line_obj.line.station_list_original) - 1

\* arrival_time += travel_time over a walk; <<>>: TypeError on a None
Total(results) ==
  IF \E k \in 1 .. Len(results) : results[k] = <<>> THEN <<>>
  ELSE <<SumSeq([k \in 1 .. Len(results) |-> results[k][1]])>>

\* C28: on a line (of either class, with as many travel times as it has
\* segments), get_travel_time summed over consecutive stops from the last
\* stop back to the first gives the same total as from the first to the
\* last: the sum of all segment times.
C28_BackwardTotalEqualsForward ==
  (/\ line_obj.stage = "walked"
   /\ Len(line_obj.line.station_list) >= 2
   /\ line_obj.base.ok) =>
     /\ Total(line_obj.forward) = <<SumSeq(line_obj.line.time_between_stations)>>
     /\ Total(line_obj.backward) = Total(line_obj.forward)
     /\ Total(line_obj.base_forward) = <<SumSeq(line_obj.base.travel_times)>>
     /\ Total(line_obj.base_backward) = Total(line_obj.base_forward)

\* The positions of the waiting list of a dequeue_for_boarding call whose
\* row has a path with a segment of the train's line from the station.
EligiblePositions(e) ==
  {k \in 1 .. Len(e.waiting_before) :
     \E seg \in Range(expand(paths, e.path_ids[k])) :
        seg[1] = e.before.line_id /\ seg[2] = e.station}

\* The entries of q at the positions in P, in the order of q.
RECURSIVE Pick(_, _, _)
Pick(q, P, k) ==
  IF k > Len(q) THEN <<>>
  ELSE (IF k \in P THEN <<q[k]>> ELSE <<>>) \o Pick(q, P, k + 1)

\* C29: dequeue_for_boarding returns exactly the waiting indices whose
\* path has a segment from this station on the train's line, in the order
\* of the waiting list, and removes exactly those from the waiting set:
\* every other waiting index stays.
C29_DequeueReturnsEligible ==
  \A e \in BoardCalls :
    /\ e.candidates = Pick(e.waiting_before, EligiblePositions(e), 1)
    /\ Range(e.waiting_after)
         = Range(e.waiting_before) \ Range(e.candidates)

\* A call that returns two different indices, in the order they were
\* waiting in, and leaves behind an index whose row has no path.
C29_Witness ==
  \E e \in BoardCalls :
    /\ Len(e.candidates) >= 2
    /\ e.candidates[1] # e.candidates[2]
    /\ \E k \in 1 .. Len(e.waiting_before) :
         /\ e.path_ids[k] = 0
         /\ e.waiting_before[k] \in Range(e.waiting_after)

\* C30: when board takes only k' of the k > k' indices that
\* dequeue_for_boarding returned, all k are gone from the station's waiting
\* set, the first k' are the ones boarded, and a passenger left behind (the
\* id its row held at the call) is in no waiting set, in that tick or in
\* any later one.
C30_ExcessIsDroppedForGood ==
  /\ \A e \in BoardCalls :
       Len(e.boarded) < Len(e.candidates) =>
         /\ Range(e.candidates) \cap Range(e.waiting_after) = {}
         /\ e.boarded = SubSeq(e.candidates, 1,
                               e.before.max_capacity - e.before.current_capacity)
  /\ \A s \in Stations : \A k \in 1 .. Len(waiting[s]) :
       memmap[waiting[s][k]].id \notin left_behind

\* At the end of a later tick a passenger left behind earlier still has a
\* live WAITING row and is on no train, and a train has since called at
\* its origin station, whose waiting set holds other indices, without
\* being offered it.
C30_Witness ==
  /\ pc = "idle"
  /\ \E i \in Idx :
       /\ memmap[i].id \in left_behind
       /\ memmap[i].state = WAITING
       /\ \A t \in 1 .. Len(active_trains) :
            i \notin Range(active_trains[t].onboard_passengers)
       /\ waiting[memmap[i].origin_station_id] # <<>>
       /\ \E e \in BoardCalls :
            /\ e.station = memmap[i].origin_station_id
            /\ e.waiting_before # <<>>
            /\ i \notin Range(e.candidates)


\* C31: step returns true exactly when it moved timetable_idx, and then to
\* the next entry, whose station becomes the current one; a call made while
\* dwell_remaining > 0 only lowers dwell_remaining by dt, not below 0; the
\* index never passes the last entry.  So the entries are visited one by
\* one, also when the clock has passed more than one of them.
C31_StepAdvancesOneEntry ==
  \A e \in TrainBodies :
    LET b == e.before
        s == e.stepped
    IN /\ e.arrived <=> s.timetable_idx # b.timetable_idx
       /\ e.arrived =>
            /\ s.timetable_idx = b.timetable_idx + 1
            /\ s.current_station_id = b.timetable[b.timetable_idx + 2][2]
       /\ ~e.arrived => s.current_station_id = b.current_station_id
       /\ b.dwell_remaining > 0 =>
            /\ ~e.arrived
            /\ s = [b EXCEPT !.dwell_remaining = Max(0, b.dwell_remaining - DT)]
       /\ s.dwell_remaining >= 0
       /\ s.timetable_idx <= Len(s.timetable) - 1
       /\ s.timetable = b.timetable

\* A call made when the clock has already passed the next two entries of
\* the timetable (the second lies less than dt after the first) arrives at
\* the first of them.
C31_Witness ==
  \E e \in TrainBodies :
    /\ e.arrived
    /\ e.before.timetable_idx + 3 <= Len(e.before.timetable)
    /\ e.time >= e.before.timetable[e.before.timetable_idx + 3][1]
    /\ e.before.timetable[e.before.timetable_idx + 3][1]
         - e.before.timetable[e.before.timetable_idx + 2][1] < DT
    /\ e.stepped.timetable_idx = e.before.timetable_idx + 1


\* Positions of the onboard list, as it was when alight was called, whose
\* row has the station arrived at as destination.
LeavingPositions(e) ==
  {k \in 1 .. Len(e.onboard_dests) :
     e.onboard_dests[k] = e.stepped.current_station_id}

\* C32: at an arrival alight returns the onboard indices whose destination
\* is the station arrived at and leaves the others on board in their
\* order; when the body of the arrival is over, no index on board has that
\* station as destination.
C32_AlightPartitionsOnboard ==
  \A e \in TrainBodies :
    e.arrived =>
      LET on == e.stepped.onboard_passengers
          P == LeavingPositions(e)
      IN /\ [k \in 1 .. Len(e.released) |-> e.released[k].idx] = Pick(on, P, 1)
         /\ e.kept = Pick(on, (1 .. Len(on)) \ P, 1)
         /\ SubSeq(e.after.onboard_passengers, 1, Len(e.kept)) = e.kept
         /\ \A k \in 1 .. Len(e.after_dests) :
              e.after_dests[k] # e.stepped.current_station_id

\* An arrival with two indices on board of which the first leaves and the
\* second stays.
C32_Witness ==
  \E e \in TrainBodies :
    /\ e.arrived
    /\ Len(e.stepped.onboard_passengers) = 2
    /\ LeavingPositions(e) = {1}
    /\ e.stepped.onboard_passengers[1] # e.stepped.onboard_passengers[2]


\* The board calls of the current tick made by the train of body e.
BoardCallsOf(e) == {c \in BoardCalls : c.before.id = e.before.id}

\* C33: when a train arrives at a station that is not the last entry of
\* its timetable, board is called in the same tick on the train as alight
\* left it: the places of the passengers released count as free.
C33_AlightBeforeBoard ==
  \A e \in TrainBodies :
    (/\ e.arrived
     /\ e.stepped.timetable_idx < Len(e.stepped.timetable) - 1
     /\ e.stepped.current_station_id \in Stations) =>
       /\ BoardCallsOf(e) # {}
       /\ \A c \in BoardCallsOf(e) :
            /\ c.before.onboard_passengers = e.kept
            /\ c.before.current_capacity = Len(e.kept)
            /\ Len(c.boarded) =
                 Min(Len(c.candidates), c.before.max_capacity - Len(e.kept))
            /\ e.after = c.after

\* A train arrives full at a station that is not its last entry, releases
\* a passenger there, and board is then called on it with the place free.
C33_Witness ==
  \E e \in TrainBodies :
    /\ e.arrived
    /\ e.stepped.timetable_idx < Len(e.stepped.timetable) - 1
    /\ e.stepped.current_capacity = e.stepped.max_capacity
    /\ e.released # <<>>
    /\ \E c \in BoardCallsOf(e) :
         c.before.current_capacity < c.before.max_capacity


\* The last entry of the timetable was reached by the step of body e.
AtTerminal(e) == e.stepped.timetable_idx >= Len(e.stepped.timetable) - 1

\* Index idx waits with a path that has a segment of the train's line
\* leaving the station.
EligibleFor(idx, tr, sid) ==
  \E seg \in Range(expand(paths, memmap[idx].path_id)) :
     seg[1] = tr.line_id /\ seg[2] = sid

\* C34: in the tick of an arrival at the last timetable entry the train is
\* reversed with a 30 s dwell, keeps on board exactly what alight left and
\* makes no board call; every board call is made on a train whose dwell is
\* still positive, the calls at a terminal in a tick after the arrival.
C34_NoBoardingAtReversal ==
  /\ \A e \in TrainBodies :
       (e.arrived /\ AtTerminal(e)) =>
         /\ BoardCallsOf(e) = {}
         /\ e.after.onboard_passengers = e.kept
         /\ e.after.direction = -e.before.direction
         /\ e.after.timetable_idx = 0
         /\ e.after.dwell_remaining = DwellTime
  /\ \A c \in BoardCalls :
       /\ c.before.dwell_remaining > 0
       /\ c.before.timetable_idx = 0 =>
            \E e \in TrainBodies :
               e.before.id = c.before.id /\ ~e.arrived

\* A tick ends in which a train with room was reversed at a terminal
\* where a passenger eligible for it was waiting; the passenger is still
\* waiting there.
C34_Witness ==
  /\ pc = "idle"
  /\ \E e \in TrainBodies :
       /\ e.arrived
       /\ AtTerminal(e)
       /\ e.after.current_capacity < e.after.max_capacity
       /\ e.stepped.current_station_id \in Stations
       /\ \E idx \in Range(waiting[e.stepped.current_station_id]) :
            EligibleFor(idx, e.after, e.stepped.current_station_id)


\* The owners of index i: the stations whose waiting set holds it and the
\* trains (by position in active_trains) whose onboard list holds it.
Owners(i) ==
  {<<"station", sid>> : sid \in {x \in Stations : i \in Range(waiting[x])}}
    \cup {<<"train", t>> :
            t \in {x \in 1 .. Len(active_trains) :
                     i \in Range(active_trains[x].onboard_passengers)}}

\* C35: at the end of every tick every index held in a waiting set or an
\* onboard list refers to a row with id > 0 that is not on the free stack,
\* and no index has two owners.
C35_HeldIndicesAreLive ==
  pc = "idle" =>
    \A i \in Idx :
      /\ Owners(i) # {} => (memmap[i].id > 0 /\ i \notin Range(free_indices))
      /\ Cardinality(Owners(i)) <= 1

OnSomeTrain(i) ==
  \E t \in 1 .. Len(active_trains) :
    i \in Range(active_trains[t].onboard_passengers)

\* C36: every passenger that boards a train eventually alights and has its
\* slot released, as the ticks go on, whatever lines its planned path uses.
C36_EveryRiderAlights ==
  \A i \in Idx : OnSomeTrain(i) ~> (~OnSomeTrain(i) \/ RunAborted)

\* The same for the passengers whose destination is on the line they board.
RidesOwnLine(i) ==
  \E t \in 1 .. Len(active_trains) :
    /\ i \in Range(active_trains[t].onboard_passengers)
    /\ memmap[i].dest_station_id
         \in Range(LineOf(active_trains[t].line_id).station_list)

C36_SingleLineRiderAlights ==
  \A i \in Idx : RidesOwnLine(i) ~> (~OnSomeTrain(i) \/ RunAborted)

\* C37: dequeue_for_boarding keeps the passengers it leaves behind in the
\* order they were enqueued: the waiting list after the call is the list
\* before it with the returned entries deleted.
C37_LeftBehindKeepEnqueueOrder ==
  \A e \in BoardCalls :
    e.waiting_after
      = Pick(e.waiting_before,
             (1 .. Len(e.waiting_before)) \ EligiblePositions(e), 1)

\* C38: a call of allocate_indices(n) that fails part-way for lack of
\* capacity leaves the store as it was before the call: no row id is
\* changed, the free stack is the same and no id is used up.
C38_FailedAllocationChangesNothing ==
  [][(call'.op = "alloc" /\ call'.failed) => UNCHANGED store_vars]_vars

\* C39: after any sequence of add_station and add_line calls the mapping
\* between string and integer station ids is one-to-one: distinct strings
\* have distinct integers, int_to_str is the inverse of str_to_int, and a
\* string registered again gets the integer it got first.
C39_StationIdsOneToOne ==
  /\ \A s1, s2 \in DOMAIN str_to_int :
       s1 # s2 => str_to_int[s1] # str_to_int[s2]
  /\ \A s \in DOMAIN str_to_int :
       /\ str_to_int[s] \in DOMAIN int_to_str
       /\ int_to_str[str_to_int[s]] = s
  /\ \A i \in DOMAIN int_to_str :
       /\ int_to_str[i] \in DOMAIN str_to_int
       /\ str_to_int[int_to_str[i]] = i
  /\ map_call.op = "add_station" =>
       map_call.result = map_call.first[map_call.str_id]

\* The make events that a step adds to the history for line number l.
NewMakesOn(l) ==
  LET OnLine(m) == m.line = l IN
  SelectSeq(SubSeq(makes_hist', Len(makes_hist) + 1, Len(makes_hist')),
            OnLine)

\* The last k entries of the idle pool, the last one first (the order in
\* which allocate_train pops them).
PoppedFirst(pool, k) == [i \in 1 .. k |-> pool[Len(pool) + 1 - i]]

\* C40: with release_train called for active ids only, no train id is
\* active and idle at once, the idle pool holds no id twice, and a make
\* event that finds released ids in the pool reuses the one released last
\* and makes no new id.
C40_ReleasedIdsAreReused ==
  /\ [](\A l \in LineNo :
          /\ tgen[l].active_trains \cap Range(tgen[l].idle_pool) = {}
          /\ Cardinality(Range(tgen[l].idle_pool)) = Len(tgen[l].idle_pool))
  /\ [][\A l \in LineNo :
          LET made == NewMakesOn(l)
              reused == Min(Len(made), Len(tgen[l].idle_pool))
          IN /\ [i \in 1 .. reused |-> made[i].train_id]
                  = PoppedFirst(tgen[l].idle_pool, reused)
             /\ Len(made) <= Len(tgen[l].idle_pool) =>
                  tgen'[l].train_id_counter = tgen[l].train_id_counter
             /\ tgen'[l].train_id_counter - tgen[l].train_id_counter
                  = Len(made) - reused]_vars

\* A train id released and made again: two make events carry it, it is
\* active, and another released id of the line is still in the pool.
C40_Witness ==
  \E i, j \in 1 .. Len(makes_hist) :
    /\ i < j
    /\ makes_hist[i].train_id = makes_hist[j].train_id
    /\ makes_hist[i].line = makes_hist[j].line
    /\ makes_hist[j].train_id \in tgen[makes_hist[j].line].active_trains
    /\ tgen[makes_hist[j].line].idle_pool # <<>>

====
